---- MODULE Spec2Model ----
(***************************************************************************)
(* A model of fsegit (github.com/kanon1343/fsegit): the binary staging     *)
(* index (store/index.go), the object store client (store/client.go), the  *)
(* history walker and the commit command with its tree builder.            *)
(*                                                                         *)
(* Representation of bytes.  A byte string is a sequence of cells, and a   *)
(* cell is a tuple whose length tells its kind:                            *)
(*   <<b>>            a plain byte with value b in 0..255                  *)
(*   <<k, content>>   byte k (1..20) of the SHA-1 digest of a byte string; *)
(*                    SHA-1 is taken to be collision free, so the digest   *)
(*                    is an injective image of the hashed bytes: the first *)
(*                    cell carries them, the other 19 mark their position  *)
(*   <<"hex", n, c>>  hex digit n (1 = high, 2 = low) of the cell c        *)
(*   <<"x", c, d, 0>> a cell of the two kinds above changed by d           *)
(***************************************************************************)
EXTENDS Integers, Sequences, FiniteSets, TLC

VARIABLES
    idx,        \* store.Index of the running command: [Version, Entries]
    indexFile,  \* .git/index: [exists, data]
    ipc,        \* position of the index session: "idle" or "open"
    iop,        \* last index operation and its outcome
    written,    \* the (path, hash, mode, size, flags) tuples of the last WriteIndex
    corrupted,  \* position of the byte of the index file that was changed, or -1
    fs,         \* .git/objects: path <<dir, name>> -> bytes of the file
    writers,    \* per writer: the WriteObject call in progress
    wlog,       \* per writer: the WriteObject calls that returned
    got,        \* the last GetObject call and what it returned
    faults,     \* number of I/O failures injected so far
    commits,    \* the history walker's store: hash -> the object GetObject finds
    walk,       \* the WalkHistory call: its locals, callback log and return
    refs,       \* .git/HEAD and the branch file it names
    cmd         \* the last command that ran and its outcome

ivars == <<idx, indexFile, ipc, iop, written, corrupted>>
svars == <<fs, writers, wlog, got, faults>>
hvars == <<commits, walk>>
cvars == <<refs, cmd>>
vars == <<idx, indexFile, ipc, iop, written, corrupted, fs, writers, wlog, got, faults,
          commits, walk, refs, cmd>>

(***************************************************************************)
(* Bounds                                                                  *)
(***************************************************************************)
MaxEntries == 2
MaxWrites == 2
MaxFaults == 1
MaxCommits == 4
MaxRefs == 3
MaxSnapshots == 2
MaxStaged == 3
MaxArgs == 2

(***************************************************************************)
(* Program constants                                                       *)
(***************************************************************************)
indexVersion == 2
indexHeaderSize == 12
maxPathLength == 4095
HashSize == 20
FileModeRegular == 33188
FileModeExecutable == 33261

(***************************************************************************)
(* Bytes                                                                   *)
(***************************************************************************)
B(n) == <<n>>

Bytes(s) == [i \in 1..Len(s) |-> B(s[i])]

\* The value of a cell read as a number.  The bytes of a digest are not
\* computed by the model; a cell of a digest reads as a fixed value below 128.
ByteVal(c) ==
    IF Len(c) = 1 THEN c[1]
    ELSE IF Len(c) = 2 THEN (5 * c[1] + 3) % 128
    ELSE 7

Str(cells) == [i \in 1..Len(cells) |-> ByteVal(cells[i])]

Min(a, b) == IF a < b THEN a ELSE b

Max0(a) == IF a < 0 THEN 0 ELSE a

Zeros(n) == [i \in 1..n |-> B(0)]

\* crypto/sha1.Sum
Sha1Sum(content) ==
    [k \in 1..HashSize |-> IF k = 1 THEN <<k, content>> ELSE <<k, <<>>>>]

\* A uint32 of 2^31 or more is carried as v - 2^32, so that every uint32
\* has one value and the arithmetic stays within the checker's integers.
PutUint32(v) ==
    IF v >= 0
    THEN << B((v \div 16777216) % 256), B((v \div 65536) % 256),
            B((v \div 256) % 256), B(v % 256) >>
    ELSE LET u == (v + 2147483647) + 1
         IN  << B(128 + (u \div 16777216)), B((u \div 65536) % 256),
                B((u \div 256) % 256), B(u % 256) >>

PutUint16(v) == << B((v \div 256) % 256), B(v % 256) >>

Uint32(data, o) ==
    LET b0 == ByteVal(data[o + 1])
        low == ByteVal(data[o + 2]) * 65536 + ByteVal(data[o + 3]) * 256
                   + ByteVal(data[o + 4])
    IN  IF b0 < 128 THEN b0 * 16777216 + low
        ELSE (((b0 - 128) * 16777216 + low) - 2147483647) - 1

Uint16(data, o) == ByteVal(data[o + 1]) * 256 + ByteVal(data[o + 2])

\* data[from:to] of Go: 0-based, to exclusive
Slice(data, from, to) == SubSeq(data, from + 1, to)

\* byte-wise string comparison a < b
RECURSIVE StrLess(_, _)
StrLess(a, b) ==
    IF Len(b) = 0 THEN FALSE
    ELSE IF Len(a) = 0 THEN TRUE
    ELSE IF a[1] < b[1] THEN TRUE
    ELSE IF a[1] > b[1] THEN FALSE
    ELSE StrLess(Tail(a), Tail(b))

indexHeaderSignature == <<68, 73, 82, 67>>

(***************************************************************************)
(* store/index.go                                                          *)
(***************************************************************************)
\* IndexEntry.SetPackedFlags
SetPackedFlags(stage, pathLength) ==
    ((stage % 4) * 4096 + (Min(pathLength, maxPathLength) % 4096)) % 65536

\* newIndex
newIndex == [Version |-> indexVersion, Entries |-> <<>>]

IndexOf(entries, path) ==
    IF \E i \in 1..Len(entries) : entries[i].PathName = path
    THEN CHOOSE i \in 1..Len(entries) :
             /\ entries[i].PathName = path
             /\ \A j \in 1..(i - 1) : entries[j].PathName # path
    ELSE 0

AddEntryAlwaysAppend(entries, newEntry) == Append(entries, newEntry)

\* Index.AddEntry
AddEntry(entries, newEntry) ==
    LET i == IndexOf(entries, newEntry.PathName)
    IN  IF i > 0 THEN [entries EXCEPT ![i] = newEntry]
        ELSE Append(entries, newEntry)

\* the insertion step of sort.Slice with less = PathName < PathName
RECURSIVE InsertByPath(_, _)
InsertByPath(sorted, e) ==
    IF Len(sorted) = 0 THEN <<e>>
    ELSE IF StrLess(e.PathName, sorted[Len(sorted)].PathName)
         THEN Append(InsertByPath(SubSeq(sorted, 1, Len(sorted) - 1), e),
                     sorted[Len(sorted)])
         ELSE Append(sorted, e)

RECURSIVE SortByPath(_)
SortByPath(entries) ==
    IF Len(entries) = 0 THEN <<>>
    ELSE InsertByPath(SortByPath(SubSeq(entries, 1, Len(entries) - 1)),
                      entries[Len(entries)])

Padding(n) == (8 - (n % 8)) % 8

\* the bytes WriteIndex appends to its buffer for one entry
EncodeEntry(e) ==
    PutUint32(e.CTimeSeconds) \o PutUint32(e.CTimeNanoseconds)
        \o PutUint32(e.MTimeSeconds) \o PutUint32(e.MTimeNanoseconds)
        \o PutUint32(e.Dev) \o PutUint32(e.Ino) \o PutUint32(e.Mode)
        \o PutUint32(e.UID) \o PutUint32(e.GID) \o PutUint32(e.Size)
        \o e.Hash \o PutUint16(e.Flags) \o Bytes(e.PathName)
        \o Zeros(Padding(60 + 2 + Len(e.PathName)))

RECURSIVE EncodeEntries(_)
EncodeEntries(entries) ==
    IF Len(entries) = 0 THEN <<>>
    ELSE EncodeEntry(entries[1]) \o EncodeEntries(Tail(entries))

\* WriteIndex: the entries as sorted in place, the error, and the bytes
\* handed to ioutil.WriteFile
WriteIndex(ix) ==
    LET sorted == SortByPath(ix.Entries)
        tooLong == \E i \in 1..Len(sorted) : Len(sorted[i].PathName) > maxPathLength
        buffer == Bytes(indexHeaderSignature) \o PutUint32(ix.Version)
                      \o PutUint32(Len(sorted)) \o EncodeEntries(sorted)
    IN  [ Entries |-> sorted,
          err     |-> IF tooLong THEN "path too long" ELSE "none",
          data    |-> buffer \o Sha1Sum(buffer) ]

\* the entry loop of ReadIndex: data is the file without its checksum
RECURSIVE ParseEntries(_, _, _, _, _)
ParseEntriesAnyEnd(data, offset, i, numEntries, acc) ==
    IF numEntries >= 0 /\ i >= numEntries
    THEN [err |-> "none", Entries |-> acc]
    ELSE IF offset >= Len(data)
    THEN [err |-> "insufficient data for entry", Entries |-> <<>>]
    ELSE IF offset + 60 + 2 > Len(data)
    THEN [err |-> "insufficient data for fixed fields", Entries |-> <<>>]
    ELSE
      LET flags == Uint16(data, offset + 60)
          pathLen == flags % 4096
          pathStart == offset + 62
      IN  IF pathStart + pathLen > Len(data)
          THEN [err |-> "insufficient data for path name", Entries |-> <<>>]
          ELSE
            LET pathEnd == pathStart + pathLen
                padding == Padding(pathEnd - offset)
                entry == [ CTimeSeconds     |-> Uint32(data, offset),
                           CTimeNanoseconds |-> Uint32(data, offset + 4),
                           MTimeSeconds     |-> Uint32(data, offset + 8),
                           MTimeNanoseconds |-> Uint32(data, offset + 12),
                           Dev              |-> Uint32(data, offset + 16),
                           Ino              |-> Uint32(data, offset + 20),
                           Mode             |-> Uint32(data, offset + 24),
                           UID              |-> Uint32(data, offset + 28),
                           GID              |-> Uint32(data, offset + 32),
                           Size             |-> Uint32(data, offset + 36),
                           Hash             |-> Slice(data, offset + 40, offset + 60),
                           PathName         |-> Str(Slice(data, pathStart, pathEnd)),
                           Flags            |-> flags ]
            IN  IF pathEnd + padding > Len(data)
                THEN [err |-> "insufficient data for padding", Entries |-> <<>>]
                ELSE ParseEntries(data, pathEnd + padding, i + 1, numEntries,
                                  Append(acc, entry))

ParseEntries(data, offset, i, numEntries, acc) ==
    IF numEntries >= 0 /\ i >= numEntries
    THEN IF offset # Len(data) THEN [err |-> "corrupt", Entries |-> <<>>]
         ELSE [err |-> "none", Entries |-> acc]
    ELSE IF offset >= Len(data)
    THEN [err |-> "insufficient data for entry", Entries |-> <<>>]
    ELSE IF offset + 60 + 2 > Len(data)
    THEN [err |-> "insufficient data for fixed fields", Entries |-> <<>>]
    ELSE
      LET flags == Uint16(data, offset + 60)
          pathLen == flags % 4096
          pathStart == offset + 62
      IN  IF pathStart + pathLen > Len(data)
          THEN [err |-> "insufficient data for path name", Entries |-> <<>>]
          ELSE
            LET pathEnd == pathStart + pathLen
                padding == Padding(pathEnd - offset)
                entry == [ CTimeSeconds     |-> Uint32(data, offset),
                           CTimeNanoseconds |-> Uint32(data, offset + 4),
                           MTimeSeconds     |-> Uint32(data, offset + 8),
                           MTimeNanoseconds |-> Uint32(data, offset + 12),
                           Dev              |-> Uint32(data, offset + 16),
                           Ino              |-> Uint32(data, offset + 20),
                           Mode             |-> Uint32(data, offset + 24),
                           UID              |-> Uint32(data, offset + 28),
                           GID              |-> Uint32(data, offset + 32),
                           Size             |-> Uint32(data, offset + 36),
                           Hash             |-> Slice(data, offset + 40, offset + 60),
                           PathName         |-> Str(Slice(data, pathStart, pathEnd)),
                           Flags            |-> flags ]
            IN  IF pathEnd + padding > Len(data)
                THEN [err |-> "insufficient data for padding", Entries |-> <<>>]
                ELSE ParseEntries(data, pathEnd + padding, i + 1, numEntries,
                                  Append(acc, entry))

\* what ReadIndex does with the bytes once the checksum is dealt with
ParseIndex(data) ==
    IF Str(Slice(data, 0, 4)) # indexHeaderSignature
    THEN [err |-> "bad signature", Version |-> indexVersion, Entries |-> <<>>]
    ELSE IF Uint32(data, 4) # indexVersion
    THEN [err |-> "unsupported version", Version |-> Uint32(data, 4), Entries |-> <<>>]
    ELSE LET r == ParseEntries(data, indexHeaderSize, 0, Uint32(data, 8), <<>>)
         IN  [err |-> r.err, Version |-> indexVersion, Entries |-> r.Entries]

ReadIndexShortAsEmpty(file) ==
    IF ~file.exists \/ Len(file.data) < indexHeaderSize
    THEN [err |-> "none", Version |-> indexVersion, Entries |-> <<>>]
    ELSE IF Len(file.data) >= indexHeaderSize + HashSize
    THEN LET contentToCheck == Slice(file.data, 0, Len(file.data) - HashSize)
             expectedChecksum == Slice(file.data, Len(file.data) - HashSize, Len(file.data))
         IN  IF expectedChecksum # Sha1Sum(contentToCheck)
             THEN [err |-> "checksum mismatch", Version |-> indexVersion, Entries |-> <<>>]
             ELSE ParseIndex(contentToCheck)
    ELSE IF Len(file.data) > indexHeaderSize
    THEN [err |-> "too short for checksum", Version |-> indexVersion, Entries |-> <<>>]
    ELSE ParseIndex(file.data)

ReadIndexUnchecked(file) ==
    IF ~file.exists
    THEN [err |-> "none", Version |-> indexVersion, Entries |-> <<>>]
    ELSE IF Len(file.data) < indexHeaderSize
    THEN [err |-> "too short for header", Version |-> indexVersion, Entries |-> <<>>]
    ELSE IF Len(file.data) >= indexHeaderSize + HashSize
    THEN ParseIndex(Slice(file.data, 0, Len(file.data) - HashSize))
    ELSE IF Len(file.data) > indexHeaderSize
    THEN [err |-> "too short for checksum", Version |-> indexVersion, Entries |-> <<>>]
    ELSE ParseIndex(file.data)

\* ReadIndex
ReadIndex(file) ==
    IF ~file.exists
    THEN [err |-> "none", Version |-> indexVersion, Entries |-> <<>>]
    ELSE IF Len(file.data) < indexHeaderSize
    THEN [err |-> "too short for header", Version |-> indexVersion, Entries |-> <<>>]
    ELSE IF Len(file.data) >= indexHeaderSize + HashSize
    THEN LET contentToCheck == Slice(file.data, 0, Len(file.data) - HashSize)
             expectedChecksum == Slice(file.data, Len(file.data) - HashSize, Len(file.data))
         IN  IF expectedChecksum # Sha1Sum(contentToCheck)
             THEN [err |-> "checksum mismatch", Version |-> indexVersion, Entries |-> <<>>]
             ELSE ParseIndex(contentToCheck)
    ELSE IF Len(file.data) > indexHeaderSize
    THEN [err |-> "too short for checksum", Version |-> indexVersion, Entries |-> <<>>]
    ELSE ParseIndex(file.data)


(***************************************************************************)
(* package object: Object, Header, NewBlob                                 *)
(***************************************************************************)
BlobObject == "blob"
TreeObject == "tree"
CommitObject == "commit"

\* Type.String
TypeString(t) ==
    IF t = "commit" THEN <<99, 111, 109, 109, 105, 116>>
    ELSE IF t = "tree" THEN <<116, 114, 101, 101>>
    ELSE IF t = "blob" THEN <<98, 108, 111, 98>>
    ELSE IF t = "tag" THEN <<116, 97, 103>>
    ELSE <<117, 110, 100, 101, 102, 105, 110, 101, 100>>

\* strconv.Itoa for n >= 0
RECURSIVE Itoa(_)
Itoa(n) == IF n < 10 THEN <<48 + n>> ELSE Append(Itoa(n \div 10), 48 + (n % 10))

\* Object.Header: "<type> <size>\0"
Header(obj) == Bytes(TypeString(obj.Type) \o <<32>> \o Itoa(obj.Size) \o <<0>>)

\* the digest of the canonical bytes "<type> <size>\0<payload>"
ObjectHash(obj) == Sha1Sum(Header(obj) \o obj.Data)

\* object.NewBlob
NewBlob(data) ==
    LET o == [Type |-> BlobObject, Size |-> Len(data), Data |-> data, Hash |-> <<>>]
    IN  [o EXCEPT !.Hash = ObjectHash(o)]

(***************************************************************************)
(* package sha: SHA1.String                                                *)
(***************************************************************************)
\* hex.EncodeToString: two digits per byte
RECURSIVE Hex(_)
Hex(h) ==
    IF Len(h) = 0 THEN <<>>
    ELSE << <<"hex", 1, h[1]>>, <<"hex", 2, <<>>>> >> \o Hex(Tail(h))

(***************************************************************************)
(* compress/zlib: a stream is the two header bytes, the deflated data and  *)
(* the four bytes of the Adler-32 checksum of the data                     *)
(***************************************************************************)
ZlibHeader == <<B(120), B(156)>>

Adler32(data) == [k \in 1..4 |-> IF k = 1 THEN <<20 + k, data>> ELSE <<20 + k, <<>>>>]

Compress(data) == ZlibHeader \o data \o Adler32(data)

\* zlib.NewReader and reading the stream to its end
Decompress(stream) ==
    IF Len(stream) < 2 \/ SubSeq(stream, 1, 2) # ZlibHeader
    THEN [err |-> "zlib header", data |-> <<>>]
    ELSE IF Len(stream) < 6
    THEN [err |-> "unexpected EOF", data |-> <<>>]
    ELSE LET data == SubSeq(stream, 3, Len(stream) - 4)
         IN  IF SubSeq(stream, Len(stream) - 3, Len(stream)) # Adler32(data)
             THEN [err |-> "unexpected EOF", data |-> <<>>]
             ELSE [err |-> "none", data |-> data]

(***************************************************************************)
(* package object: ReadObject                                              *)
(***************************************************************************)
\* the position of the first cell with value v, 0 if there is none
FirstIndex(cells, v) ==
    IF \E i \in 1..Len(cells) : ByteVal(cells[i]) = v
    THEN CHOOSE i \in 1..Len(cells) :
             /\ ByteVal(cells[i]) = v
             /\ \A j \in 1..(i - 1) : ByteVal(cells[j]) # v
    ELSE 0

IsDigits(s) == Len(s) > 0 /\ \A i \in 1..Len(s) : s[i] \in 48..57

\* strconv.Atoi of a string of digits
RECURSIVE Atoi(_)
Atoi(s) == IF Len(s) = 0 THEN 0 ELSE Atoi(SubSeq(s, 1, Len(s) - 1)) * 10 + (s[Len(s)] - 48)

\* NewType
NewType(typeString) ==
    IF typeString = TypeString("commit") THEN "commit"
    ELSE IF typeString = TypeString("tree") THEN "tree"
    ELSE IF typeString = TypeString("blob") THEN "blob"
    ELSE IF typeString = TypeString("tag") THEN "tag"
    ELSE "undefined"

NoObject == [Type |-> "undefined", Size |-> 0, Data |-> <<>>, Hash |-> <<>>]

\* object.ReadObject: parse "<type> <size>\0", take the payload, require it
\* to be <size> bytes long, and hash what was read
ReadObject(bytes) ==
    LET nul == FirstIndex(bytes, 0)
        head == Str(SubSeq(bytes, 1, nul - 1))
        sp == FirstIndex(SubSeq(bytes, 1, Max0(nul - 1)), 32)
        typeString == SubSeq(head, 1, sp - 1)
        sizeString == SubSeq(head, sp + 1, Len(head))
        data == SubSeq(bytes, nul + 1, Len(bytes))
    IN  IF nul = 0 \/ sp = 0 \/ ~IsDigits(sizeString) \/ Len(sizeString) > 4
        THEN [err |-> "bad header", obj |-> NoObject]
        ELSE IF NewType(typeString) = "undefined"
        THEN [err |-> "invalid object", obj |-> NoObject]
        ELSE IF Atoi(sizeString) # Len(data)
        THEN [err |-> "size mismatch", obj |-> NoObject]
        ELSE [err |-> "none",
              obj |-> [Type |-> NewType(typeString), Size |-> Len(data),
                       Data |-> data, Hash |-> Sha1Sum(bytes)]]

(***************************************************************************)
(* store/client.go: GetObject and WriteObject                              *)
(***************************************************************************)
\* filepath.Join(c.objectDir, hashString[:2], hashString[2:])
ObjectPath(hashString) == <<SubSeq(hashString, 1, 2), SubSeq(hashString, 3, Len(hashString))>>

\* Client.GetObject
GetObject(files, hash) ==
    LET hashString == Hex(hash)
        objectPath == ObjectPath(hashString)
    IN  IF Len(hashString) # 40
        THEN [err |-> "invalid hash", obj |-> NoObject]
        ELSE IF objectPath \notin DOMAIN files
        THEN [err |-> "not found", obj |-> NoObject]
        ELSE LET z == Decompress(files[objectPath])
             IN  IF z.err # "none"
                 THEN [err |-> z.err, obj |-> NoObject]
                 ELSE ReadObject(z.data)

\* ioutil.TempFile(dirPath, "tmp_obj_"): a fresh name in the directory
TempPath(dirPath, w, n) == <<dirPath, <<"tmp_obj_", w, n>>>>

IsTempPath(path) == Len(path[2]) = 3

WriteToFinalPath(filePath, tempPath) == filePath

\* the file WriteObject fills: the temporary file, not the final path
WriteTarget(filePath, tempPath) == tempPath

\* the deferred function of WriteObject: err is the variable TempFile
\* assigned; the errors of the later calls are declared in their own if
\* statements and never reach it
DeferredCleanup(files, tempPath, err) ==
    IF err # "none" /\ tempPath \in DOMAIN files
    THEN [p \in (DOMAIN files) \ {tempPath} |-> files[p]]
    ELSE files

Put(files, path, data) ==
    [p \in (DOMAIN files) \cup {path} |-> IF p = path THEN data ELSE files[p]]

RenameCopies(files, from, to) == Put(files, to, files[from])

\* os.Rename(from, to)
Rename(files, from, to) ==
    IF from = to THEN files
    ELSE [p \in ((DOMAIN files) \ {from}) \cup {to} |->
              IF p = to THEN files[from] ELSE files[p]]

StatNeverFinds(files, path) == FALSE

\* os.Stat(filePath) returns no error
Exists(files, path) == path \in DOMAIN files

PayloadOnly(obj) == obj.Data

\* the bytes WriteObject sends through the zlib writer: header, then data
Content(obj) == Header(obj) \o obj.Data

IdleWriter == [pc |-> "idle", obj |-> NoObject, target |-> <<>>, n |-> 0]

Return(files, ws, tempPath, res) ==
    [ files |-> IF tempPath = <<>> THEN files
                ELSE DeferredCleanup(files, tempPath, "none"),
      ws    |-> [ws EXCEPT !.pc = "done"],
      res   |-> res ]

\* One step of WriteObject for the call state ws of writer w; fail tells
\* whether the system call of this step fails.
WriteObjectStep(files, ws, w, fail) ==
    LET hashStr == Hex(ws.obj.Hash)
        filePath == ObjectPath(hashStr)
        tempPath == TempPath(SubSeq(hashStr, 1, 2), w, ws.n)
        target == WriteTarget(filePath, tempPath)
        content == Content(ws.obj)
        Go(files2, pc2) == [files |-> files2, ws |-> [ws EXCEPT !.pc = pc2], res |-> "running"]
    IN  CASE ws.pc = "start" ->
               IF Len(hashStr) # 40
               THEN Return(files, ws, <<>>, "invalid hash")
               ELSE IF Exists(files, filePath)
               THEN Return(files, ws, <<>>, "exists")
               ELSE Go(files, "create")
          [] ws.pc = "create" ->
               IF fail THEN Return(files, ws, <<>>, "create temp failed")
               ELSE Go(Put(files, target, <<>>), "header")
          [] ws.pc = "header" ->
               IF fail THEN Return(files, ws, target, "write header failed")
               ELSE Go(Put(files, target, ZlibHeader), "data")
          [] ws.pc = "data" ->
               IF fail THEN Return(files, ws, target, "write data failed")
               ELSE Go(Put(files, target, ZlibHeader \o Header(ws.obj)), "zclose")
          [] ws.pc = "zclose" ->
               IF fail THEN Return(files, ws, target, "close zlib failed")
               ELSE Go(Put(files, target, Compress(content)), "fclose")
          [] ws.pc = "fclose" ->
               IF fail THEN Return(files, ws, target, "close file failed")
               ELSE Go(files, "rename")
          [] ws.pc = "rename" ->
               IF fail THEN Return(files, ws, target, "rename failed")
               ELSE Return(Rename(files, target, filePath), ws, <<>>, "written")

(***************************************************************************)
(* The working tree the staging command reads: the content a file has      *)
(* when it is staged is one of two, the second an executable file.         *)
(***************************************************************************)
FileData(b) == IF b = 1 THEN Bytes(<<104>>) ELSE Bytes(<<119, 111>>)

FileMode(b) == IF b = 1 THEN FileModeRegular ELSE FileModeExecutable

\* the IndexEntry addCmd.Run fills in for a regular file: every field but
\* Flags, which keeps the zero value
StagedEntry(path, b) ==
    [ CTimeSeconds     |-> 1,
      CTimeNanoseconds |-> 0,
      MTimeSeconds     |-> 1,
      MTimeNanoseconds |-> 0,
      Dev              |-> 1,
      Ino              |-> 2,
      Mode             |-> FileMode(b),
      UID              |-> 0,
      GID              |-> 0,
      Size             |-> Len(FileData(b)),
      Hash             |-> NewBlob(FileData(b)).Hash,
      PathName         |-> path,
      Flags            |-> 0 ]

\* the same entry after the caller has used SetPackedFlags(0, len(path))
PackedEntry(path, b) ==
    [StagedEntry(path, b) EXCEPT !.Flags = SetPackedFlags(0, Len(path))]

\* paths of 1..8 bytes, which need every padding length 0..7, and two more
PathA == <<97>>
PathB == <<98>>
PathDF == <<100, 47, 102>>
LongPath == <<97, 98, 99, 100, 101, 102, 103, 104>>
IndexPaths == {SubSeq(LongPath, 1, n) : n \in 1..8} \cup {PathB, PathDF}
SmallPaths == {PathA, PathB, PathDF}

\* the entries a command may add: as addCmd.Run builds them, or with the
\* flags packed; the second file content on the short paths only
EntriesOver(paths) ==
    {StagedEntry(p, 1) : p \in paths} \cup {PackedEntry(p, 1) : p \in paths}
        \cup {PackedEntry(p, 2) : p \in paths \cap SmallPaths}

(***************************************************************************)
(* The index as the commands use it: a command reads the index, adds       *)
(* entries, writes it back and ends.                                       *)
(***************************************************************************)
Tuples(entries) ==
    [i \in 1..Len(entries) |->
        <<entries[i].PathName, entries[i].Hash, entries[i].Mode,
          entries[i].Size, entries[i].Flags>>]

DistinctPaths(entries) ==
    \A i, j \in 1..Len(entries) :
        entries[i].PathName = entries[j].PathName => i = j

NoOp == [name |-> "init", err |-> "none", arg |-> <<>>, replaced |-> FALSE]

Writers == {1, 2}

NoFiles == [p \in {} |-> <<>>]

NoGet == [name |-> "init", hash |-> <<>>, err |-> "none", obj |-> NoObject]

\* an empty object directory and nobody using it
NoWalk == [impl |-> "visited", start |-> 0, ancestors |-> <<>>, visited |-> {},
           calls |-> <<>>, last |-> "none", ret |-> "idle"]

NoCmd == [name |-> "init", status |-> "none", entries |-> <<>>, root |-> <<>>,
          commit |-> <<>>, commits |-> 0]

\* HEAD names the branch refs/heads/master, which has no commit yet
NoRefs == [HEAD |-> Bytes(<<114, 101, 102, 58, 32, 114, 101, 102, 115, 47, 104, 101, 97,
                           100, 115, 47, 109, 97, 115, 116, 101, 114, 10>>),
           files |-> [p \in {} |-> <<>>]]

\* the parts of the repository a specification leaves alone
InitRest ==
    /\ commits = <<>>
    /\ walk = NoWalk
    /\ refs = NoRefs
    /\ cmd = NoCmd

InitStore ==
    /\ fs = NoFiles
    /\ writers = [w \in Writers |-> IdleWriter]
    /\ wlog = [w \in Writers |-> <<>>]
    /\ got = NoGet
    /\ faults = 0

InitIndex ==
    /\ InitStore
    /\ InitRest
    /\ idx = newIndex
    /\ indexFile \in {[exists |-> FALSE, data |-> <<>>], [exists |-> TRUE, data |-> <<>>]}
    /\ ipc = "idle"
    /\ iop = NoOp
    /\ written = [valid |-> FALSE, tuples |-> <<>>]
    /\ corrupted = -1

\* idx, err := store.ReadIndex(dotGitPath); a command that cannot read the
\* index ends (log.Fatalf)
ReadIndexStep ==
    /\ ipc = "idle"
    /\ LET r == ReadIndex(indexFile)
       IN  /\ idx' = [Version |-> r.Version, Entries |-> r.Entries]
           /\ ipc' = IF r.err = "none" THEN "open" ELSE "idle"
           /\ iop' = [NoOp EXCEPT !.name = "read", !.err = r.err]
    /\ UNCHANGED <<indexFile, written, corrupted>>

\* idx.AddEntry(entry)
AddEntryStep(e) ==
    /\ ipc = "open"
    /\ Len(AddEntry(idx.Entries, e)) <= MaxEntries
    /\ idx' = [idx EXCEPT !.Entries = AddEntry(idx.Entries, e)]
    /\ iop' = [name |-> "add", err |-> "none", arg |-> <<e>>,
               replaced |-> IndexOf(idx.Entries, e.PathName) > 0]
    /\ UNCHANGED <<indexFile, ipc, written, corrupted>>

WriteIndexStepMerging ==
    /\ ipc = "open"
    /\ LET onDisk == ReadIndex(indexFile)
           merged == [idx EXCEPT !.Entries =
                         SelectSeq(onDisk.Entries,
                                   LAMBDA x : IndexOf(idx.Entries, x.PathName) = 0)
                             \o idx.Entries]
           w == WriteIndex(merged)
       IN  /\ idx' = [idx EXCEPT !.Entries = w.Entries]
           /\ iop' = [NoOp EXCEPT !.name = "write", !.err = w.err]
           /\ IF w.err = "none"
              THEN /\ indexFile' = [exists |-> TRUE, data |-> w.data]
                   /\ written' = [valid |-> DistinctPaths(w.Entries),
                                  tuples |-> Tuples(w.Entries)]
                   /\ corrupted' = -1
              ELSE UNCHANGED <<indexFile, written, corrupted>>
    /\ ipc' = "idle"

\* store.WriteIndex(idx), the last call of the staging command
WriteIndexStep ==
    /\ ipc = "open"
    /\ LET w == WriteIndex(idx)
       IN  /\ idx' = [idx EXCEPT !.Entries = w.Entries]
           /\ iop' = [NoOp EXCEPT !.name = "write", !.err = w.err]
           /\ IF w.err = "none"
              THEN /\ indexFile' = [exists |-> TRUE, data |-> w.data]
                   /\ written' = [valid |-> DistinctPaths(w.Entries),
                                  tuples |-> Tuples(w.Entries)]
                   /\ corrupted' = -1
              ELSE UNCHANGED <<indexFile, written, corrupted>>
    /\ ipc' = "idle"

\* one byte of a written index file is changed behind the program's back
FlipCell(c, d) == IF Len(c) = 1 THEN B((c[1] + d) % 256) ELSE <<"x", c, d, 0>>

FlipDeltas == {1, 128}

CorruptStep(pos, d) ==
    /\ ipc = "idle"
    /\ indexFile.exists
    /\ iop.name = "write"
    /\ iop.err = "none"
    /\ corrupted = -1
    /\ pos \in 0..(Len(indexFile.data) - HashSize - 1)
    /\ indexFile' = [indexFile EXCEPT !.data[pos + 1] = FlipCell(@, d)]
    /\ corrupted' = pos
    /\ iop' = [NoOp EXCEPT !.name = "corrupt"]
    /\ UNCHANGED <<idx, ipc, written>>

NextIndex ==
    \/ ReadIndexStep /\ UNCHANGED <<svars, hvars, cvars>>
    \/ \E e \in EntriesOver(IndexPaths) : AddEntryStep(e) /\ UNCHANGED <<svars, hvars, cvars>>
    \/ WriteIndexStep /\ UNCHANGED <<svars, hvars, cvars>>

SpecIndex == InitIndex /\ [][NextIndex]_vars

NextCorrupt ==
    \/ ReadIndexStep /\ UNCHANGED <<svars, hvars, cvars>>
    \/ \E e \in EntriesOver(SmallPaths) : AddEntryStep(e) /\ UNCHANGED <<svars, hvars, cvars>>
    \/ WriteIndexStep /\ UNCHANGED <<svars, hvars, cvars>>
    \/ \E pos \in 0..(Len(indexFile.data) - 1), d \in FlipDeltas :
           CorruptStep(pos, d) /\ UNCHANGED <<svars, hvars, cvars>>

SpecCorrupt == InitIndex /\ [][NextCorrupt]_vars

(***************************************************************************)
(* The object store under concurrent use: two writers run WriteObject one  *)
(* system call at a time, a writer may be interrupted for good, and        *)
(* readers call GetObject in between.                                      *)
(***************************************************************************)
\* the objects handed to WriteObject: hashed by their constructor, or with
\* the hash not yet computed
Unhashed == [NewBlob(FileData(1)) EXCEPT !.Hash = <<>>]
StoreObjects == {NewBlob(FileData(1)), NewBlob(FileData(2)), Unhashed}

InProgress(w) == writers[w].pc \notin {"idle", "done", "crashed"}

\* the WriteObject calls made so far
Calls == Len(wlog[1]) + Len(wlog[2]) + Cardinality({w \in Writers : writers[w].pc \notin {"idle", "done"}})

Apply(w, r) ==
    /\ fs' = r.files
    /\ writers' = [writers EXCEPT ![w] = r.ws]
    /\ wlog' = IF r.ws.pc = "done"
               THEN [wlog EXCEPT ![w] = Append(@, [obj |-> r.ws.obj, res |-> r.res])]
               ELSE wlog

\* storeClient.WriteObject(obj) is called: the hash is checked and the
\* final path is looked up with os.Stat
WriteObjectCall(w, o) ==
    /\ writers[w].pc \in {"idle", "done"}
    /\ Calls < MaxWrites
    /\ Apply(w, WriteObjectStep(fs, [pc |-> "start", obj |-> o, target |-> <<>>,
                                     n |-> Len(wlog[w]) + 1], w, FALSE))
    /\ UNCHANGED <<got, faults>>

\* the next system call of WriteObject succeeds
WriteObjectNext(w) ==
    /\ InProgress(w)
    /\ Apply(w, WriteObjectStep(fs, writers[w], w, FALSE))
    /\ UNCHANGED <<got, faults>>

\* the next system call of WriteObject fails
WriteObjectFail(w) ==
    /\ InProgress(w)
    /\ faults < MaxFaults
    /\ Apply(w, WriteObjectStep(fs, writers[w], w, TRUE))
    /\ faults' = faults + 1
    /\ UNCHANGED got

\* the process of a writer is interrupted between two of its steps
Crash(w) ==
    /\ InProgress(w)
    /\ writers' = [writers EXCEPT ![w].pc = "crashed"]
    /\ UNCHANGED <<fs, wlog, got, faults>>

\* a reader calls GetObject(hash)
GetObjectStep(h) ==
    /\ LET r == GetObject(fs, h)
       IN  got' = [name |-> "get", hash |-> h, err |-> r.err, obj |-> r.obj]
    /\ UNCHANGED <<fs, writers, wlog, faults>>

NextStore ==
    \/ \E w \in Writers, o \in StoreObjects : WriteObjectCall(w, o) /\ UNCHANGED <<ivars, hvars, cvars>>
    \/ \E w \in Writers : WriteObjectNext(w) /\ UNCHANGED <<ivars, hvars, cvars>>
    \/ \E w \in Writers : WriteObjectFail(w) /\ UNCHANGED <<ivars, hvars, cvars>>
    \/ \E w \in Writers : Crash(w) /\ UNCHANGED <<ivars, hvars, cvars>>
    \/ \E o \in StoreObjects : GetObjectStep(o.Hash) /\ UNCHANGED <<ivars, hvars, cvars>>

InitStoreOnly ==
    /\ InitStore
    /\ InitRest
    /\ idx = newIndex
    /\ indexFile = [exists |-> FALSE, data |-> <<>>]
    /\ ipc = "idle"
    /\ iop = NoOp
    /\ written = [valid |-> FALSE, tuples |-> <<>>]
    /\ corrupted = -1

SpecStore == InitStoreOnly /\ [][NextStore]_vars


(***************************************************************************)
(* Properties of the index                                                 *)
(***************************************************************************)
IsSortedByPath(entries) ==
    \A i \in 1..(Len(entries) - 1) :
        StrLess(entries[i].PathName, entries[i + 1].PathName)

\* C1: reading the file WriteIndex wrote for an index with pairwise
\* distinct paths succeeds and returns, in ascending path order, exactly the
\* (path, hash, mode, size, flags) tuples that were written.
C1_WriteReadRoundTrip ==
    (iop.name = "read" /\ written.valid /\ corrupted = -1)
        => /\ iop.err = "none"
           /\ Tuples(idx.Entries) = written.tuples
           /\ IsSortedByPath(idx.Entries)

\* C7: AddEntry on an index with pairwise distinct paths keeps the paths
\* distinct; a path already present is replaced at its position and the
\* count stays, a new path is appended at the end, and every other entry
\* keeps its place.
C7_AddEntryUpsert ==
    [][ (iop'.name = "add" /\ DistinctPaths(idx.Entries))
          => LET e == iop'.arg[1]
                 old == idx.Entries
                 new == idx'.Entries
                 i == IndexOf(old, e.PathName)
             IN  /\ DistinctPaths(new)
                 /\ IF i > 0
                    THEN /\ Len(new) = Len(old)
                         /\ new[i] = e
                         /\ \A j \in 1..Len(old) : j # i => new[j] = old[j]
                    ELSE /\ Len(new) = Len(old) + 1
                         /\ new[Len(new)] = e
                         /\ \A j \in 1..Len(old) : new[j] = old[j] ]_ivars

\* an entry was replaced at the first of two positions
C7_Witness ==
    /\ iop.name = "add"
    /\ iop.replaced
    /\ Len(idx.Entries) = 2
    /\ idx.Entries[1] = iop.arg[1]
    /\ DistinctPaths(idx.Entries)

\* C8: after one byte before the trailing checksum of a written index file
\* has been changed, ReadIndex fails with the checksum-mismatch error and
\* returns no index.
C8_FlipDetected ==
    (iop.name = "read" /\ corrupted >= 0)
        => (iop.err = "checksum mismatch" /\ ipc = "idle")

\* a byte of the second entry of a two-entry file was changed and read
C8_Witness ==
    /\ iop.name = "read"
    /\ corrupted >= indexHeaderSize + 64
    /\ iop.err = "checksum mismatch"
    /\ Len(written.tuples) = 2


(***************************************************************************)
(* Properties of the object store                                          *)
(***************************************************************************)
Succeeded(call) == call.res \in {"written", "exists"}

\* C4: whatever the writers, the readers and the interruptions do, a file
\* at a final path objects/<2 hex>/<38 hex> holds the complete compressed
\* header and payload of the object of that hash, and GetObject never fails
\* on a partly written file.
C4_NoPartialObject ==
    /\ \A p \in DOMAIN fs :
          ~IsTempPath(p) =>
              \E o \in StoreObjects :
                  /\ Len(o.Hash) = HashSize
                  /\ p = ObjectPath(Hex(o.Hash))
                  /\ fs[p] = Compress(Header(o) \o o.Data)
    /\ got.name = "get" => got.err \in {"none", "not found", "invalid hash"}

\* an interrupted writer has left a partly written temporary file, and a
\* reader has read a complete object
C4_Witness ==
    /\ \E w \in Writers :
          /\ writers[w].pc = "crashed"
          /\ \E p \in DOMAIN fs :
                IsTempPath(p) /\ p[2][2] = w /\ Decompress(fs[p]).err # "none"
    /\ got.name = "get"
    /\ got.err = "none"
    /\ ObjectPath(Hex(got.hash)) \in DOMAIN fs

\* C9: when no system call fails, two WriteObject calls in sequence with
\* the same object both succeed, the second finds the file and writes
\* nothing, and the two calls leave the file at the final path and no
\* temporary file.
C9_SecondWriteIsNoop ==
    \A w \in Writers : \A i \in 1..(Len(wlog[w]) - 1) :
        ( /\ wlog[w][i].obj = wlog[w][i + 1].obj
          /\ Len(wlog[w][i].obj.Hash) = HashSize
          /\ faults = 0 )
        => /\ Succeeded(wlog[w][i])
           /\ wlog[w][i + 1].res = "exists"
           /\ ObjectPath(Hex(wlog[w][i].obj.Hash)) \in DOMAIN fs
           /\ \A p \in DOMAIN fs :
                 (IsTempPath(p) /\ p[2][2] = w) => p[2][3] \notin {i, i + 1}

\* a writer wrote an object and then was handed the same object again
C9_Witness ==
    \E w \in Writers :
        /\ Len(wlog[w]) = 2
        /\ wlog[w][1].obj = wlog[w][2].obj
        /\ wlog[w][1].res = "written"
        /\ wlog[w][2].res = "exists"
        /\ faults = 0

\* C10: an object whose WriteObject succeeded is returned by GetObject
\* with its kind and payload, and whatever GetObject returns for a hash has
\* that hash as the digest of "<kind> <len>\0<payload>".
C10_ReadBackWhatWasWritten ==
    /\ \A w \in Writers : \A i \in 1..Len(wlog[w]) :
          Succeeded(wlog[w][i]) =>
              LET r == GetObject(fs, wlog[w][i].obj.Hash)
              IN  /\ r.err = "none"
                  /\ r.obj.Type = wlog[w][i].obj.Type
                  /\ r.obj.Data = wlog[w][i].obj.Data
    /\ (got.name = "get" /\ got.err = "none") => ObjectHash(got.obj) = got.hash

\* both blobs are stored and the second was read back
C10_Witness ==
    /\ got.name = "get"
    /\ got.err = "none"
    /\ got.obj.Type = BlobObject
    /\ got.obj.Data = FileData(2)
    /\ \E w \in Writers : \E i \in 1..Len(wlog[w]) :
          wlog[w][i].res = "written" /\ wlog[w][i].obj.Hash = got.hash
    /\ Cardinality({p \in DOMAIN fs : ~IsTempPath(p)}) = 2


(***************************************************************************)
(* The history walker: Client.WalkHistory, in the two versions of the      *)
(* store client.  A hash is a number; the store maps it to the object      *)
(* GetObject returns for it, already parsed.  Hash 1 is the one that may   *)
(* name no object or an object that is no commit; the walk starts at it or *)
(* at a commit, and which commit makes no difference to either version.    *)
(***************************************************************************)
CommitIds == 1..MaxCommits

SeqsUpTo(S, n) == UNION {[1..k -> S] : k \in 0..n}

\* the parent lists of the commits 1..n, holding at most r references in all
RECURSIVE ParentLists(_, _)
ParentLists(n, r) ==
    IF n = 0 THEN {<<>>}
    ELSE UNION {{Append(rest, ps) : rest \in ParentLists(n - 1, r - Len(ps))}
                : ps \in SeqsUpTo(CommitIds, r)}

\* object.NewCommit(obj): the object must be a commit
NewCommit(obj) ==
    IF obj.Type = CommitObject THEN [err |-> "none", Parents |-> obj.Parents]
    ELSE [err |-> "not a commit", Parents |-> <<>>]

NeverVisited(visited, hash) == FALSE

\* _, ok := visited[hashStr]
IsVisited(visited, hash) == hash \in visited

Push(ancestors, parents) == parents \o ancestors

\* ancestors = append(ancestors, parents...)
Enqueue(ancestors, parents) == ancestors \o parents

WalkHistorySkipsBroken(w, store, r) ==
    IF w.ancestors = <<>> THEN [w EXCEPT !.ret = "nil"]
    ELSE LET currentHash == Head(w.ancestors)
             d == [w EXCEPT !.ancestors = Tail(@)]
             v == [d EXCEPT !.visited = @ \cup {currentHash}]
             commit == NewCommit(store[currentHash])
             called == [v EXCEPT !.calls = Append(@, currentHash), !.last = r]
         IN  IF IsVisited(w.visited, currentHash) THEN d
             ELSE IF ~store[currentHash].exists THEN v
             ELSE IF commit.err # "none" THEN v
             ELSE IF r = "ErrStopWalk" THEN [called EXCEPT !.ret = "nil"]
             ELSE IF r # "nil" THEN [called EXCEPT !.ret = "error in walk function"]
             ELSE [called EXCEPT !.ancestors =
                      Enqueue(@, SelectSeq(commit.Parents,
                                           LAMBDA p : ~IsVisited(v.visited, p)))]

\* One pass of the loop of WalkHistory as the store client with WriteObject
\* has it; r is what walkFunc returns if this pass calls it.
WalkHistory(w, store, r) ==
    IF w.ancestors = <<>> THEN [w EXCEPT !.ret = "nil"]
    ELSE LET currentHash == Head(w.ancestors)
             d == [w EXCEPT !.ancestors = Tail(@)]
             v == [d EXCEPT !.visited = @ \cup {currentHash}]
             commit == NewCommit(store[currentHash])
             called == [v EXCEPT !.calls = Append(@, currentHash), !.last = r]
         IN  IF IsVisited(w.visited, currentHash) THEN d
             ELSE IF ~store[currentHash].exists THEN [v EXCEPT !.ret = "failed to get object"]
             ELSE IF commit.err # "none" THEN [v EXCEPT !.ret = "failed to parse commit"]
             ELSE IF r = "ErrStopWalk" THEN [called EXCEPT !.ret = "nil"]
             ELSE IF r # "nil" THEN [called EXCEPT !.ret = "error in walk function"]
             ELSE [called EXCEPT !.ancestors =
                      Enqueue(@, SelectSeq(commit.Parents,
                                           LAMBDA p : ~IsVisited(v.visited, p)))]

\* One pass of the loop of the earlier WalkHistory (cycleCheck).
WalkHistoryBFS(w, store, r) ==
    IF w.ancestors = <<>> THEN [w EXCEPT !.ret = "nil"]
    ELSE LET currentHash == Head(w.ancestors)
             v == [w EXCEPT !.visited = @ \cup {currentHash}]
             current == NewCommit(store[currentHash])
             called == [v EXCEPT !.calls = Append(@, currentHash), !.last = r]
         IN  IF IsVisited(w.visited, currentHash) THEN [w EXCEPT !.ancestors = Tail(@)]
             ELSE IF ~store[currentHash].exists THEN [v EXCEPT !.ret = "failed to get object"]
             ELSE IF current.err # "none" THEN [v EXCEPT !.ret = "failed to parse commit"]
             ELSE IF r # "nil" THEN [called EXCEPT !.ret = r]
             ELSE [called EXCEPT !.ancestors = Enqueue(Tail(@), current.Parents)]

WalkPass(r) ==
    /\ walk.ret = "running"
    /\ walk' = IF walk.impl = "visited" THEN WalkHistory(walk, commits, r)
               ELSE WalkHistoryBFS(walk, commits, r)
    /\ UNCHANGED <<commits, ivars, svars, cvars>>

\* a pass that takes an unvisited hash from the queue
WalkVisit(r) ==
    /\ walk.ancestors # <<>>
    /\ ~IsVisited(walk.visited, Head(walk.ancestors))
    /\ WalkPass(r)

\* a pass that finds the hash at the head of the queue visited
WalkSkip ==
    /\ walk.ancestors # <<>>
    /\ IsVisited(walk.visited, Head(walk.ancestors))
    /\ WalkPass("nil")

\* the queue is empty: return nil
WalkReturn ==
    /\ walk.ancestors = <<>>
    /\ WalkPass("nil")

CallbackReturns == {"nil", "ErrStopWalk", "callback error"}

NextWalk ==
    \/ \E r \in CallbackReturns : WalkVisit(r)
    \/ WalkSkip
    \/ WalkReturn

InitWalk ==
    /\ InitStore
    /\ idx = newIndex
    /\ indexFile = [exists |-> FALSE, data |-> <<>>]
    /\ ipc = "idle"
    /\ iop = NoOp
    /\ written = [valid |-> FALSE, tuples |-> <<>>]
    /\ corrupted = -1
    /\ refs = NoRefs
    /\ cmd = NoCmd
    /\ \E ps \in ParentLists(MaxCommits, MaxRefs),
          first \in {[exists |-> TRUE, Type |-> CommitObject],
                     [exists |-> TRUE, Type |-> BlobObject],
                     [exists |-> FALSE, Type |-> "undefined"]} :
          commits = [c \in CommitIds |->
                        IF c = 1
                        THEN [exists |-> first.exists, Type |-> first.Type,
                              Parents |-> IF first.Type = CommitObject THEN ps[c] ELSE <<>>]
                        ELSE [exists |-> TRUE, Type |-> CommitObject, Parents |-> ps[c]]]
    /\ \E impl \in {"visited", "cycleCheck"}, hash \in {1, MaxCommits} :
          walk = [NoWalk EXCEPT !.impl = impl, !.start = hash,
                                !.ancestors = <<hash>>, !.ret = "running"]

SpecWalk == InitWalk /\ [][NextWalk]_vars

\* the loop runs on until it returns
SpecWalkFair == SpecWalk /\ WF_vars(NextWalk)

(***************************************************************************)
(* Properties of the history walker                                        *)
(***************************************************************************)
ParentSet(c) ==
    IF commits[c].exists /\ commits[c].Type = CommitObject
    THEN {commits[c].Parents[i] : i \in 1..Len(commits[c].Parents)}
    ELSE {}

\* the hashes reached from the set S along at most k parent links
RECURSIVE Within(_, _)
Within(S, k) == IF k = 0 THEN S ELSE Within(S \cup UNION {ParentSet(c) : c \in S}, k - 1)

Reachable == Within({walk.start}, MaxCommits)

ReachableCommits == {c \in Reachable : commits[c].exists /\ commits[c].Type = CommitObject}

Depth(c) == CHOOSE k \in 0..MaxCommits :
                c \in Within({walk.start}, k) /\ (k = 0 \/ c \notin Within({walk.start}, k - 1))

\* the walk returned nil after a callback that did not ask it to stop
WalkCompleted == walk.ret = "nil" /\ walk.last # "ErrStopWalk"

\* c3 -> c2 -> c1, c1 without parent; further parent references of c3 and
\* c2 repeat hashes of the chain
IsChain(c3, c2, c1) ==
    /\ Cardinality({c3, c2, c1}) = 3
    /\ commits[c1].exists /\ commits[c1].Type = CommitObject /\ commits[c1].Parents = <<>>
    /\ commits[c2].Parents # <<>> /\ ParentSet(c2) = {c1}
    /\ commits[c3].Parents # <<>> /\ commits[c3].Parents[1] = c2 /\ ParentSet(c3) \subseteq {c2, c1}

\* C5: no commit is passed to the callback twice; a walk that ran to the
\* end has passed every commit reachable from the start, nearer ones before
\* farther ones; on a chain c3 -> c2 -> c1 the calls are c3, c2, c1, however
\* often the parent references repeat.
C5_EachCommitOnceInQueueOrder ==
    LET calls == walk.calls
    IN  /\ \A i, j \in 1..Len(calls) : i # j => calls[i] # calls[j]
        /\ WalkCompleted =>
              /\ {calls[i] : i \in 1..Len(calls)} = Reachable
              /\ \A i, j \in 1..Len(calls) : i < j => Depth(calls[i]) <= Depth(calls[j])
        /\ \A c2, c1 \in CommitIds :
              (WalkCompleted /\ IsChain(walk.start, c2, c1)) => calls = <<walk.start, c2, c1>>

\* a finished walk over a chain in which a parent reference is repeated
C5_Witness ==
    \E c2, c1 \in CommitIds :
        /\ IsChain(walk.start, c2, c1)
        /\ Len(commits[walk.start].Parents) + Len(commits[c2].Parents) >= 3
        /\ WalkCompleted
        /\ walk.calls = <<walk.start, c2, c1>>

\* C6: every walk returns, and it never has called the callback more often
\* than there are commits reachable from the start.
C6_WalkTerminates ==
    /\ [](Len(walk.calls) <= Cardinality(ReachableCommits))
    /\ <>(walk.ret # "running")

\* a walk that returned although a commit reachable from the start is its
\* own ancestor
C6_Witness ==
    /\ \E c \in ReachableCommits : c \in Within(ParentSet(c), MaxCommits)
    /\ WalkCompleted
    /\ Len(walk.calls) = Cardinality(ReachableCommits)

(***************************************************************************)
(* strings, path/filepath and sort, on strings as sequences of byte values *)
(* (47 is the slash).  The paths the commands meet are clean: filepath     *)
(* Clean leaves them as they are.                                          *)
(***************************************************************************)
HasPrefix(s, prefix) == Len(prefix) <= Len(s) /\ SubSeq(s, 1, Len(prefix)) = prefix

TrimPrefix(s, prefix) == IF HasPrefix(s, prefix) THEN SubSeq(s, Len(prefix) + 1, Len(s)) ELSE s

\* strings.Split(s, "/")
RECURSIVE SplitPath(_)
SplitPath(s) ==
    IF \E i \in 1..Len(s) : s[i] = 47
    THEN LET i == CHOOSE k \in 1..Len(s) : s[k] = 47 /\ \A j \in 1..(k - 1) : s[j] # 47
         IN  <<SubSeq(s, 1, i - 1)>> \o SplitPath(SubSeq(s, i + 1, Len(s)))
    ELSE <<s>>

\* filepath.Base
Base(path) == IF path = <<>> THEN <<46>> ELSE SplitPath(path)[Len(SplitPath(path))]

\* filepath.Dir
Dir(path) ==
    LET last == Len(SplitPath(path)[Len(SplitPath(path))])
    IN  IF Len(SplitPath(path)) = 1 THEN <<46>> ELSE SubSeq(path, 1, Len(path) - last - 1)

\* filepath.Join(a, b)
Join(a, b) == IF a = <<>> THEN b ELSE IF b = <<>> THEN a ELSE a \o <<47>> \o b

\* strings.TrimSpace, on the bytes of a file
RECURSIVE TrimSpace(_)
TrimSpace(cells) ==
    IF cells = <<>> THEN cells
    ELSE IF cells[1] \in {B(32), B(10), B(13), B(9)} THEN TrimSpace(Tail(cells))
    ELSE IF cells[Len(cells)] \in {B(32), B(10), B(13), B(9)}
    THEN TrimSpace(SubSeq(cells, 1, Len(cells) - 1))
    ELSE cells

\* sort.Strings of the keys of a map
RECURSIVE SortStrings(_)
SortStrings(S) ==
    IF S = {} THEN <<>>
    ELSE LET least == CHOOSE x \in S : \A y \in S \ {x} : StrLess(x, y)
         IN  <<least>> \o SortStrings(S \ {least})

\* fmt.Sprintf("%06o", mode)
Octal6(mode) ==
    LET RECURSIVE Oct(_)
        Oct(n) == IF n < 8 THEN <<48 + n>> ELSE Append(Oct(n \div 8), 48 + (n % 8))
    IN  [i \in 1..Max0(6 - Len(Oct(mode))) |-> 48] \o Oct(mode)

(***************************************************************************)
(* package sha and package object: FromString, NewTree and the tree        *)
(* payload                                                                 *)
(***************************************************************************)
\* sha.FromString: forty hex digits give the twenty bytes of a hash
FromString(s) ==
    IF Len(s) = 2 * HashSize /\ \A i \in 1..Len(s) : Len(s[i]) = 3 /\ s[i][1] = "hex"
    THEN [err |-> "none", hash |-> [k \in 1..HashSize |-> s[2 * k - 1][3]]]
    ELSE [err |-> "invalid hash", hash |-> <<>>]

NewTreeUnsorted(entries) ==
    LET RECURSIVE Payload(_)
        Payload(es) ==
            IF es = <<>> THEN <<>>
            ELSE Bytes(es[1].Mode \o <<32>> \o es[1].Name \o <<0>>) \o es[1].Hash
                     \o Payload(Tail(es))
        data == Payload(entries)
        o == [Type |-> TreeObject, Size |-> Len(data), Data |-> data, Hash |-> <<>>]
    IN  [o EXCEPT !.Hash = ObjectHash(o)]

\* object.NewTree(entries): the entries in ascending order of name, each as
\* mode SP name NUL and the twenty bytes of the hash
NewTree(entries) ==
    LET RECURSIVE Sorted(_)
        Sorted(es) ==
            IF es = <<>> THEN <<>>
            ELSE LET rest == Sorted(SubSeq(es, 1, Len(es) - 1))
                     e == es[Len(es)]
                     before == SelectSeq(rest, LAMBDA x : ~StrLess(e.Name, x.Name))
                     after == SelectSeq(rest, LAMBDA x : StrLess(e.Name, x.Name))
                 IN  before \o <<e>> \o after
        RECURSIVE Payload(_)
        Payload(es) ==
            IF es = <<>> THEN <<>>
            ELSE Bytes(es[1].Mode \o <<32>> \o es[1].Name \o <<0>>) \o es[1].Hash
                     \o Payload(Tail(es))
        data == Payload(Sorted(entries))
        o == [Type |-> TreeObject, Size |-> Len(data), Data |-> data, Hash |-> <<>>]
    IN  [o EXCEPT !.Hash = ObjectHash(o)]

\* the entries of a tree payload
RECURSIVE ParseTree(_)
ParseTree(data) ==
    LET sp == FirstIndex(data, 32)
        nul == FirstIndex(data, 0)
    IN  IF sp = 0 \/ nul < sp \/ Len(data) < nul + HashSize THEN <<>>
        ELSE << [Mode |-> Str(SubSeq(data, 1, sp - 1)),
                 Name |-> Str(SubSeq(data, sp + 1, nul - 1)),
                 Hash |-> SubSeq(data, nul + 1, nul + HashSize)] >>
                 \o ParseTree(SubSeq(data, nul + HashSize + 1, Len(data)))

(***************************************************************************)
(* cmd/commit.go and cmd/add.go.  A command runs from its first statement  *)
(* to its return or its log.Fatal; st holds the object directory and the   *)
(* number of WriteObject calls the command has made; fault names the call  *)
(* and the step of it that fails, if one does.                             *)
(***************************************************************************)
NoFault == [call |-> 0, pc |-> "none"]

\* the steps of WriteObject a command is made to fail at: before the
\* temporary file exists, while it is partly written, when it is complete
FaultSteps == {"create", "data", "rename"}

\* ioutil.TempFile picks a name that is not in use
FreshTemp(files) ==
    CHOOSE n \in 1..(Cardinality(DOMAIN files) + 1) :
        /\ \A p \in DOMAIN files : IsTempPath(p) => p[2][3] # n
        /\ \A k \in 1..(n - 1) : \E p \in DOMAIN files : IsTempPath(p) /\ p[2][3] = k

WriteObjectUnchecked(st, obj, fault) ==
    LET RECURSIVE Run(_, _)
        Continue(r) == IF r.res = "running" THEN Run(r.files, r.ws) ELSE r
        Run(files, ws) ==
            Continue(WriteObjectStep(files, ws, 1,
                                     fault.call = st.n + 1 /\ fault.pc = ws.pc))
        Returned(done) ==
            [ st  |-> [files |-> done.files, n |-> st.n + 1],
              err |-> "none" ]
    IN  Returned(Run(st.files, [pc |-> "start", obj |-> obj, target |-> <<>>,
                                n |-> FreshTemp(st.files)]))

\* storeClient.WriteObject(obj), from the call to the return
WriteObject(st, obj, fault) ==
    LET RECURSIVE Run(_, _)
        Continue(r) == IF r.res = "running" THEN Run(r.files, r.ws) ELSE r
        Run(files, ws) ==
            Continue(WriteObjectStep(files, ws, 1,
                                     fault.call = st.n + 1 /\ fault.pc = ws.pc))
        Returned(done) ==
            [ st  |-> [files |-> done.files, n |-> st.n + 1],
              err |-> IF done.res \in {"written", "exists"} THEN "none" ELSE done.res ]
    IN  Returned(Run(st.files, [pc |-> "start", obj |-> obj, target |-> <<>>,
                                n |-> FreshTemp(st.files)]))

RECURSIVE buildTreeObjectsRecursive(_, _, _, _, _)
RECURSIVE SubTrees(_, _, _, _, _, _)

SubTreesIgnoreError(names, allSubDirIndexEntries, st, currentPathPrefix, fault, treeEntries) ==
    IF names = <<>> THEN [err |-> "none", st |-> st, treeEntries |-> treeEntries]
    ELSE LET subDirName == Head(names)
             nextPathPrefix == Join(currentPathPrefix, subDirName)
             forRecursion == {p \in DOMAIN allSubDirIndexEntries :
                                  HasPrefix(p, nextPathPrefix \o <<47>>)}
             direct == {p \in (DOMAIN allSubDirIndexEntries) \ forRecursion :
                            Dir(p) = nextPathPrefix}
             Built(sub) ==
                 SubTrees(Tail(names), allSubDirIndexEntries, sub.st,
                          currentPathPrefix, fault,
                          Append(treeEntries,
                                 [Mode |-> <<48, 52, 48, 48, 48, 48>>,
                                  Name |-> subDirName, Hash |-> sub.Hash]))
         IN  Built(buildTreeObjectsRecursive(
                       [p \in direct |-> allSubDirIndexEntries[p]],
                       [p \in forRecursion |-> allSubDirIndexEntries[p]],
                       st, nextPathPrefix, fault))

\* the loop of buildTreeObjectsRecursive over sortedSubDirNames; names are
\* the ones still to come
SubTrees(names, allSubDirIndexEntries, st, currentPathPrefix, fault, treeEntries) ==
    IF names = <<>> THEN [err |-> "none", st |-> st, treeEntries |-> treeEntries]
    ELSE LET subDirName == Head(names)
             nextPathPrefix == Join(currentPathPrefix, subDirName)
             forRecursion == {p \in DOMAIN allSubDirIndexEntries :
                                  HasPrefix(p, nextPathPrefix \o <<47>>)}
             direct == {p \in (DOMAIN allSubDirIndexEntries) \ forRecursion :
                            Dir(p) = nextPathPrefix}
             Built(sub) ==
                 IF sub.err # "none"
                 THEN [err |-> sub.err, st |-> sub.st, treeEntries |-> treeEntries]
                 ELSE SubTrees(Tail(names), allSubDirIndexEntries, sub.st,
                               currentPathPrefix, fault,
                               Append(treeEntries,
                                      [Mode |-> <<48, 52, 48, 48, 48, 48>>,
                                       Name |-> subDirName, Hash |-> sub.Hash]))
         IN  Built(buildTreeObjectsRecursive(
                       [p \in direct |-> allSubDirIndexEntries[p]],
                       [p \in forRecursion |-> allSubDirIndexEntries[p]],
                       st, nextPathPrefix, fault))

buildTreeObjectsRecursive(directEntriesInCurrentDir, allSubDirIndexEntries, st, currentPathPrefix, fault) ==
    LET sortedDirectEntryNames == SortStrings(DOMAIN directEntriesInCurrentDir)
        fileEntries ==
            [i \in 1..Len(sortedDirectEntryNames) |->
                LET indexEntry == directEntriesInCurrentDir[sortedDirectEntryNames[i]]
                IN  [Mode |-> Octal6(indexEntry.Mode), Name |-> Base(indexEntry.PathName),
                     Hash |-> indexEntry.Hash]]
        immediateSubDirs ==
            {Head(SplitPath(TrimPrefix(TrimPrefix(p, currentPathPrefix), <<47>>))) :
                p \in {q \in DOMAIN allSubDirIndexEntries :
                          HasPrefix(q, currentPathPrefix) /\ Len(currentPathPrefix) < Len(q)}}
                \ {<<>>}
        Written(currentTreeObj, w) ==
            IF w.err # "none" THEN [Hash |-> <<>>, err |-> w.err, st |-> w.st]
            ELSE [Hash |-> currentTreeObj.Hash, err |-> "none", st |-> w.st]
        Write(subs, currentTreeObj) ==
            IF subs.err # "none" THEN [Hash |-> <<>>, err |-> subs.err, st |-> subs.st]
            ELSE Written(currentTreeObj, WriteObject(subs.st, currentTreeObj, fault))
        Encode(subs) == Write(subs, NewTree(subs.treeEntries))
    IN  Encode(SubTrees(SortStrings(immediateSubDirs), allSubDirIndexEntries, st,
                        currentPathPrefix, fault, fileEntries))

CommitDataNoParent(rootTreeHash, parentCommitSHA, now, message) ==
    LET who == <<84, 101, 115, 116, 32, 85, 115, 101, 114, 32, 60, 116, 101, 115, 116, 64, 101, 120, 97, 109, 112, 108, 101, 46, 99, 111, 109, 62, 32>>
    IN  Bytes(<<116, 114, 101, 101, 32>>) \o Hex(rootTreeHash) \o <<B(10)>>
        \o Bytes(<<97, 117, 116, 104, 111, 114, 32>> \o who \o Itoa(now) \o <<32, 43, 48, 48, 48, 48, 10>>)
        \o Bytes(<<99, 111, 109, 109, 105, 116, 116, 101, 114, 32>> \o who \o Itoa(now) \o <<32, 43, 48, 48, 48, 48, 10>>)
        \o Bytes(<<10>> \o message \o <<10>>)

\* the commit payload: tree, parent if there is one, author, committer, a
\* blank line and the message
CommitData(rootTreeHash, parentCommitSHA, now, message) ==
    LET who == <<84, 101, 115, 116, 32, 85, 115, 101, 114, 32, 60, 116, 101, 115, 116, 64, 101, 120, 97, 109, 112, 108, 101, 46, 99, 111, 109, 62, 32>>
    IN  Bytes(<<116, 114, 101, 101, 32>>) \o Hex(rootTreeHash) \o <<B(10)>>
        \o (IF parentCommitSHA = <<>> THEN <<>>
            ELSE Bytes(<<112, 97, 114, 101, 110, 116, 32>>) \o Hex(parentCommitSHA) \o <<B(10)>>)
        \o Bytes(<<97, 117, 116, 104, 111, 114, 32>> \o who \o Itoa(now) \o <<32, 43, 48, 48, 48, 48, 10>>)
        \o Bytes(<<99, 111, 109, 109, 105, 116, 116, 101, 114, 32>> \o who \o Itoa(now) \o <<32, 43, 48, 48, 48, 48, 10>>)
        \o Bytes(<<10>> \o message \o <<10>>)

headRefPrefix == <<114, 101, 102, 58, 32>>

\* the entry a map keyed by path holds for p after the loop over idx.Entries
\* has assigned every entry to its path: the last one with that path
LastEntry(entries, p) ==
    entries[CHOOSE i \in 1..Len(entries) :
                /\ entries[i].PathName = p
                /\ \A j \in (i + 1)..Len(entries) : entries[j].PathName # p]

\* strings.Contains(path, "/")
ContainsSlash(path) == \E i \in 1..Len(path) : path[i] = 47

RootDirEntriesUntilSubDir(entries) ==
    [p \in {entries[i].PathName :
                i \in {k \in 1..Len(entries) :
                          \A j \in 1..k : ~ContainsSlash(entries[j].PathName)}} |->
        LastEntry(entries, p)]

\* the map rootDirEntries of commitCmd.Run
RootDirEntries(entries) ==
    [p \in {entries[i].PathName :
                i \in {k \in 1..Len(entries) : ~ContainsSlash(entries[k].PathName)}} |->
        LastEntry(entries, p)]

\* the map allSubDirIndexEntries of commitCmd.Run
AllSubDirIndexEntries(entries) ==
    [p \in {entries[i].PathName :
                i \in {k \in 1..Len(entries) : ContainsSlash(entries[k].PathName)}} |->
        LastEntry(entries, p)]

\* step 1 of commitCmd.Run: the two maps and the call of the tree builder
\* on the root
BuildRootTree(entries, st, fault) ==
    buildTreeObjectsRecursive(RootDirEntries(entries), AllSubDirIndexEntries(entries),
                              st, <<>>, fault)

\* strings.HasPrefix(string(headContent), headRefPrefix)
HeadIsSymbolic(rf) == HasPrefix(rf.HEAD, Bytes(headRefPrefix))

\* refName := strings.TrimSpace(string(headContent)[len(headRefPrefix):])
HeadRefName(rf) == Str(TrimSpace(SubSeq(rf.HEAD, Len(headRefPrefix) + 1, Len(rf.HEAD))))

UpdateRefAlwaysHead(rf, pointer) == [rf EXCEPT !.HEAD = pointer]

\* step 6 of commitCmd.Run: the branch file HEAD names is written, or HEAD
\* itself when it is detached
UpdateRef(rf, pointer) ==
    IF HeadIsSymbolic(rf)
    THEN [rf EXCEPT !.files = [p \in (DOMAIN @) \cup {HeadRefName(rf)} |->
                                  IF p = HeadRefName(rf) THEN pointer ELSE @[p]]]
    ELSE [rf EXCEPT !.HEAD = pointer]

\* commitCmd.Run: the new object directory, refs and outcome
commitCmdRun(file, files, rf, message, now, fault) ==
    LET Out(read, status, f, r, root, commit) ==
            [files |-> f, refs |-> r, status |-> status, entries |-> read.Entries,
             root |-> root, commit |-> commit,
             failed |-> status \in {"failed to build tree objects",
                                    "failed to write commit object"}]
        symbolic == HeadIsSymbolic(rf)
        refName == HeadRefName(rf)
        firstCommit == symbolic /\ refName \notin DOMAIN rf.files
        Object(commitData) ==
            LET obj == [Type |-> CommitObject, Size |-> Len(commitData),
                        Data |-> commitData, Hash |-> <<>>]
            IN  [obj EXCEPT !.Hash = ObjectHash(obj)]
        Written(read, tree, commitObj, w) ==
            IF w.err # "none"
            THEN Out(read, "failed to write commit object", w.st.files, rf, tree.Hash, <<>>)
            ELSE Out(read, "committed", w.st.files,
                     UpdateRef(rf, Hex(commitObj.Hash) \o <<B(10)>>), tree.Hash,
                     commitObj.Hash)
        Write(read, tree, commitObj) ==
            Written(read, tree, commitObj, WriteObject(tree.st, commitObj, fault))
        Encode(read, tree, parent) ==
            IF parent.err # "none"
            THEN Out(read, "invalid parent commit", tree.st.files, rf, tree.Hash, <<>>)
            ELSE Write(read, tree, Object(CommitData(tree.Hash, parent.hash, now, message)))
        Built(read, tree) ==
            IF tree.err # "none"
            THEN Out(read, "failed to build tree objects", tree.st.files, rf, <<>>, <<>>)
            ELSE Encode(read, tree,
                        IF firstCommit THEN [err |-> "none", hash |-> <<>>]
                        ELSE IF symbolic THEN FromString(TrimSpace(rf.files[refName]))
                        ELSE FromString(TrimSpace(rf.HEAD)))
        Read(read) ==
            IF message = <<>> THEN Out(read, "empty commit message", files, rf, <<>>, <<>>)
            ELSE IF read.err # "none"
            THEN Out(read, "failed to read index", files, rf, <<>>, <<>>)
            ELSE IF Len(read.Entries) = 0
            THEN Out(read, "nothing to commit", files, rf, <<>>, <<>>)
            ELSE Built(read, BuildRootTree(read.Entries, [files |-> files, n |-> 0], fault))
    IN  Read(ReadIndex(file))

\* addCmd.Run for one path whose file holds FileData(b): the new object
\* directory, index file and outcome
addCmdRun(file, files, path, b, fault) ==
    LET Written(read, w, entries, out) ==
            IF out.err # "none"
            THEN [files |-> w.st.files, file |-> file,
                  status |-> "failed to write updated index", entries |-> entries]
            ELSE [files |-> w.st.files, file |-> [exists |-> TRUE, data |-> out.data],
                  status |-> IF w.err = "none" THEN "added" ELSE "skipped",
                  entries |-> entries]
        Write(read, w, entries) ==
            Written(read, w, entries,
                    WriteIndex([Version |-> read.Version, Entries |-> entries]))
        Added(read, w) ==
            Write(read, w, IF w.err = "none"
                           THEN AddEntry(read.Entries, StagedEntry(path, b))
                           ELSE read.Entries)
        Read(read) ==
            IF read.err # "none"
            THEN [files |-> files, file |-> file, status |-> "failed to read index",
                  entries |-> <<>>]
            ELSE Added(read, WriteObject([files |-> files, n |-> 0],
                                         NewBlob(FileData(b)), fault))
    IN  Read(ReadIndex(file))

Clock == {1, 2}

Messages == {<<109>>}

TreePaths == {PathA, PathB, PathDF, <<97, 47, 102>>, <<100, 47, 115, 47, 102>>}

Faults(calls) == {NoFault} \cup [call : 1..calls, pc : FaultSteps]

\* the file at a path of the working tree: the second blob where the last
\* byte of the path is odd
FileOf(path) == 1 + (path[Len(path)] % 2)

\* the snapshot command runs; a fault is one that changes the run, that is,
\* the system call it names is reached
CommitStep(message, now, fault) ==
    /\ cmd.commits < MaxSnapshots
    /\ fault # NoFault => faults < MaxFaults
    /\ \E r \in {commitCmdRun(indexFile, fs, refs, message, now, fault)} :
           /\ fault # NoFault => r # commitCmdRun(indexFile, fs, refs, message, now, NoFault)
           /\ fs' = r.files
           /\ refs' = r.refs
           /\ cmd' = [name |-> "commit", status |-> r.status, entries |-> r.entries,
                      root |-> r.root, commit |-> r.commit,
                      commits |-> cmd.commits + (IF r.status = "committed" THEN 1 ELSE 0)]
           /\ faults' = faults + (IF fault # NoFault THEN 1 ELSE 0)
    /\ UNCHANGED <<ivars, writers, wlog, got, hvars>>

AddStep(path, b, fault) ==
    /\ fault # NoFault => faults < MaxFaults
    /\ \E r \in {addCmdRun(indexFile, fs, path, b, fault)} :
           /\ Len(r.entries) <= MaxEntries
           /\ fault # NoFault => r.status = "skipped"
           /\ fs' = r.files
           /\ indexFile' = r.file
           /\ cmd' = [cmd EXCEPT !.name = "add", !.status = r.status,
                                 !.entries = r.entries]
           /\ faults' = faults + (IF r.status = "skipped" THEN 1 ELSE 0)
    /\ UNCHANGED <<idx, ipc, iop, written, corrupted, writers, wlog, got, refs, hvars>>

NextCommit ==
    \/ \E message \in Messages, now \in Clock, fault \in Faults(MaxEntries + 2) :
           CommitStep(message, now, fault)
    \/ \E path \in {PathA, PathDF}, fault \in Faults(1) :
           AddStep(path, FileOf(path), fault)

\* a repository whose index holds what SetPackedFlags would have made of
\* the flags, and whose object directory holds the staged blobs
InitCommit ==
    /\ \E S \in SUBSET TreePaths :
          LET paths == SortStrings(S)
              staged == [i \in 1..Len(paths) |-> PackedEntry(paths[i], FileOf(paths[i]))]
          IN  /\ Cardinality(S) <= MaxEntries
              /\ indexFile = IF S = {} THEN [exists |-> FALSE, data |-> <<>>]
                             ELSE [exists |-> TRUE,
                                   data |-> WriteIndex([Version |-> indexVersion,
                                                        Entries |-> staged]).data]
              /\ fs = [p \in {ObjectPath(Hex(staged[i].Hash)) : i \in 1..Len(staged)} |->
                          LET i == CHOOSE k \in 1..Len(staged) :
                                       ObjectPath(Hex(staged[k].Hash)) = p
                          IN  Compress(Content(NewBlob(FileData(FileOf(paths[i])))))]
    /\ writers = [w \in Writers |-> IdleWriter]
    /\ wlog = [w \in Writers |-> <<>>]
    /\ got = NoGet
    /\ faults = 0
    /\ idx = newIndex
    /\ ipc = "idle"
    /\ iop = NoOp
    /\ written = [valid |-> FALSE, tuples |-> <<>>]
    /\ corrupted = -1
    /\ commits = <<>>
    /\ walk = NoWalk
    /\ refs = NoRefs
    /\ cmd = NoCmd

SpecCommit == InitCommit /\ [][NextCommit]_vars

(***************************************************************************)
(* Properties of the snapshot command                                      *)
(***************************************************************************)
\* the tree hash leads along the names comps to an entry with this mode
\* and hash, every name before the last being a directory
RECURSIVE InTree(_, _, _, _, _)
InTree(files, treeHash, comps, mode, hash) ==
    LET Entries(r) ==
            IF r.err = "none" /\ r.obj.Type = TreeObject THEN ParseTree(r.obj.Data)
            ELSE <<>>
    IN  \E es \in {Entries(GetObject(files, treeHash))} :
            \E i \in 1..Len(es) :
                /\ es[i].Name = comps[1]
                /\ IF Len(comps) = 1 THEN es[i].Mode = mode /\ es[i].Hash = hash
                   ELSE /\ es[i].Mode = <<48, 52, 48, 48, 48, 48>>
                        /\ InTree(files, es[i].Hash, Tail(comps), mode, hash)

Committed == cmd.name = "commit" /\ cmd.status = "committed"

\* C2: after a snapshot, every staged path c1/.../cn is found from the
\* root tree along entries c1, ..., c(n-1) of mode 040000, as an entry cn
\* with the staged mode and hash.
C2_StagedPathInTree ==
    Committed =>
        \A i \in 1..Len(cmd.entries) :
            InTree(fs, cmd.root, SplitPath(cmd.entries[i].PathName),
                   Octal6(cmd.entries[i].Mode), cmd.entries[i].Hash)

\* C3: right after a successful snapshot, reading the index gives no
\* entries.
C3_IndexEmptyAfterCommit ==
    Committed =>
        /\ ReadIndex(indexFile).err = "none"
        /\ ReadIndex(indexFile).Entries = <<>>

(***************************************************************************)
(* The tree builder on an Index filled in any order.  Entries are inserted *)
(* into the Index in memory one by one; then step 1 of commitCmd.Run       *)
(* builds the root tree from them.                                         *)
(***************************************************************************)
TreeInsert(path, b) ==
    /\ cmd.name = "init"
    /\ \/ Len(idx.Entries) < MaxStaged
       \/ \E i \in 1..Len(idx.Entries) : idx.Entries[i].PathName = path
    /\ idx' = [idx EXCEPT !.Entries = AddEntry(@, PackedEntry(path, b))]
    /\ idx'.Entries # idx.Entries
    /\ UNCHANGED <<indexFile, ipc, iop, written, corrupted, svars, hvars, cvars>>

TreeBuild ==
    /\ cmd.name = "init"
    /\ \E r \in {BuildRootTree(idx.Entries, [files |-> fs, n |-> 0], NoFault)} :
           /\ fs' = r.st.files
           /\ cmd' = [NoCmd EXCEPT !.name = "tree", !.status = r.err,
                                   !.entries = idx.Entries, !.root = r.Hash]
    /\ UNCHANGED <<ivars, writers, wlog, got, faults, hvars, refs>>

NextTree ==
    \/ \E path \in TreePaths, b \in {1, 2} : TreeInsert(path, b)
    \/ TreeBuild

InitTree == InitIndex /\ ~indexFile.exists

SpecTree == InitTree /\ [][NextTree]_vars

\* the orders a sequence can be put in
Orders(s) == {[i \in 1..Len(s) |-> s[f[i]]] : f \in Permutations(1..Len(s))}

\* the tree objects of an object directory, each as its list of entries
TreesIn(files) ==
    {ParseTree(r.obj.Data) :
        r \in {o \in {ReadObject(Decompress(files[p]).data) :
                        p \in {q \in DOMAIN files : ~IsTempPath(q)}} :
                  o.err = "none" /\ o.obj.Type = TreeObject}}

\* C11: the root tree hash built from the entries of the Index is the one
\* built from the same entries in every other order of insertion.
C11_TreeHashIgnoresInsertionOrder ==
    cmd.name = "tree" =>
        \A q \in Orders(cmd.entries) :
            BuildRootTree(q, [files |-> NoFiles, n |-> 0], NoFault).Hash = cmd.root

\* a tree was built from three entries that were not inserted in path order
C11_Witness ==
    /\ cmd.name = "tree"
    /\ cmd.status = "none"
    /\ Len(cmd.root) = HashSize
    /\ Len(cmd.entries) = 3
    /\ StrLess(cmd.entries[3].PathName, cmd.entries[1].PathName)

Added == cmd.name = "add" /\ cmd.status = "added"

\* C13: after add, every entry of the Index has flags (0 << 12) | min(path
\* length, 4095), in memory and in the index file add wrote.
C13_AddPacksFlags ==
    Added =>
        /\ \A i \in 1..Len(cmd.entries) :
               cmd.entries[i].Flags = SetPackedFlags(0, Len(cmd.entries[i].PathName))
        /\ indexFile.data =
               WriteIndex([Version |-> indexVersion,
                           Entries |-> [i \in 1..Len(cmd.entries) |->
                               [cmd.entries[i] EXCEPT
                                   !.Flags = SetPackedFlags(0, Len(cmd.entries[i].PathName))]]]).data

(***************************************************************************)
(* The index file cut short: between two commands the file is left with    *)
(* only its first n bytes.                                                 *)
(***************************************************************************)
TruncateStep(n) ==
    /\ ipc = "idle"
    /\ indexFile.exists
    /\ corrupted = -1
    /\ n < Len(indexFile.data)
    /\ indexFile' = [indexFile EXCEPT !.data = SubSeq(@, 1, n)]
    /\ corrupted' = n
    /\ iop' = [NoOp EXCEPT !.name = "truncate"]
    /\ UNCHANGED <<idx, ipc, written>>

NextTruncate ==
    \/ ReadIndexStep /\ UNCHANGED <<svars, hvars, cvars>>
    \/ \E e \in EntriesOver(SmallPaths) : AddEntryStep(e) /\ UNCHANGED <<svars, hvars, cvars>>
    \/ WriteIndexStep /\ UNCHANGED <<svars, hvars, cvars>>
    \/ \E n \in 0..(Len(indexFile.data) - 1) :
           TruncateStep(n) /\ UNCHANGED <<svars, hvars, cvars>>

SpecTruncate == InitIndex /\ [][NextTruncate]_vars

lsFilesCmdRun(file) ==
    LET Read(read) ==
            IF read.err # "none"
            THEN [status |-> "failed to read index", entries |-> <<>>, output |-> <<>>]
            ELSE [status |-> "listed", entries |-> read.Entries,
                  output |-> [i \in 1..Len(read.Entries) |-> read.Entries[i].PathName]]
    IN  Read(ReadIndex(file))

LsFilesStep ==
    /\ \E r \in {lsFilesCmdRun(indexFile)} :
           cmd' = [name |-> "ls-files", status |-> r.status, entries |-> r.entries,
                   root |-> <<>>, commit |-> <<>>, commits |-> cmd.commits,
                   output |-> r.output]
    /\ UNCHANGED <<ivars, svars, hvars, refs>>

NextLs ==
    \/ LsFilesStep
    \/ \E path \in TreePaths, fault \in Faults(1) : AddStep(path, FileOf(path), fault)

\* a repository as the tests set it up: no index file, or an empty one
InitLs == InitIndex

SpecLs == InitLs /\ [][NextLs]_vars

EmptyIndexFile == indexFile.exists /\ indexFile.data = <<>>

\* C15: with a zero-length index file, ls-files succeeds and prints
\* nothing, and add of an existing file succeeds and stages it, so that
\* ls-files then lists its path.
C15_EmptyIndexFileIsUsable ==
    [][ EmptyIndexFile =>
          /\ cmd'.name = "ls-files" => (cmd'.status = "listed" /\ cmd'.output = <<>>)
          /\ (cmd'.name = "add" /\ cmd'.status # "skipped") =>
                 /\ cmd'.status = "added"
                 /\ lsFilesCmdRun(indexFile').status = "listed"
                 /\ lsFilesCmdRun(indexFile').output = <<cmd'.entries[1].PathName>> ]_vars

(***************************************************************************)
(* Properties of the snapshot command: how it ends, what it writes         *)
(***************************************************************************)
\* the exit status of the process after commitCmd.Run: log.Fatal and
\* log.Fatalf end it with status 1, a return from Run leaves it 0
commitExit(status) == IF status \in {"nothing to commit", "committed"} THEN 0 ELSE 1

NothingStaged == ReadIndex(indexFile).err = "none" /\ ReadIndex(indexFile).Entries = <<>>

\* C16: a snapshot attempted while the Index has no entries is reported as
\* a failure, writes no object and leaves the refs and the index file as
\* they were.
C16_EmptyStagingFails ==
    [][ (cmd'.name = "commit" /\ NothingStaged) =>
            /\ commitExit(cmd'.status) # 0
            /\ fs' = fs
            /\ refs' = refs
            /\ indexFile' = indexFile ]_vars

(***************************************************************************)
(* The snapshot command with HEAD symbolic or detached.  HEAD becomes      *)
(* detached when it is made to hold the hash its branch file holds.  The   *)
(* clock stands still, so that two snapshots of one tree differ in their   *)
(* parent only; a snapshot may fail at the rename of its first WriteObject *)
(* and leave the temporary file behind.                                    *)
(***************************************************************************)
DetachStep ==
    /\ HeadIsSymbolic(refs)
    /\ HeadRefName(refs) \in DOMAIN refs.files
    /\ refs' = [refs EXCEPT !.HEAD = refs.files[HeadRefName(refs)]]
    /\ cmd' = [cmd EXCEPT !.name = "detach", !.status = "none"]
    /\ UNCHANGED <<ivars, svars, hvars>>

NextHead ==
    \/ \E message \in Messages, fault \in {NoFault, [call |-> 1, pc |-> "rename"]} :
           CommitStep(message, 1, fault)
    \/ \E path \in {PathA, PathDF} : AddStep(path, FileOf(path), NoFault)
    \/ DetachStep

SpecHead == InitCommit /\ [][NextHead]_vars

\* the lines of a commit payload before the blank line
RECURSIVE HeaderLines(_)
HeaderLines(data) ==
    LET nl == FirstIndex(data, 10)
    IN  IF nl < 2 THEN <<>>
        ELSE <<SubSeq(data, 1, nl - 1)>> \o HeaderLines(SubSeq(data, nl + 1, Len(data)))

\* object.NewCommit: the hashes of the parent lines of a commit payload
ParseCommit(data) ==
    LET IsParent(line) == HasPrefix(line, Bytes(<<112, 97, 114, 101, 110, 116, 32>>))
        parentLines == SelectSeq(HeaderLines(data), IsParent)
    IN  [Parents |-> [i \in 1..Len(parentLines) |->
                         FromString(SubSeq(parentLines[i], Len(<<112, 97, 114, 101, 110, 116, 32>>) + 1,
                                           Len(parentLines[i]))).hash]]

\* the parents of the commit with this hash, none if it is not a commit of
\* the object directory
ParentsOf(files, hash) ==
    LET Read(r) == IF r.err = "none" /\ r.obj.Type = CommitObject
                   THEN ParseCommit(r.obj.Data).Parents ELSE <<>>
    IN  Read(GetObject(files, hash))

IsCommit(files, hash) ==
    \E r \in {GetObject(files, hash)} : r.err = "none" /\ r.obj.Type = CommitObject

\* the commits met by following first-parent links from hash, at most n
RECURSIVE History(_, _, _)
History(files, hash, n) ==
    LET Rest(parents) == IF parents = <<>> THEN <<>>
                         ELSE History(files, parents[1], n - 1)
    IN  IF n = 0 \/ ~IsCommit(files, hash) THEN <<>>
        ELSE <<hash>> \o Rest(ParentsOf(files, hash))

\* the hash the current pointer holds: that of the branch file HEAD names,
\* or of HEAD itself when it is detached; none when the branch file is absent
Pointer(rf) ==
    IF ~HeadIsSymbolic(rf) THEN FromString(TrimSpace(rf.HEAD)).hash
    ELSE IF HeadRefName(rf) \in DOMAIN rf.files
    THEN FromString(TrimSpace(rf.files[HeadRefName(rf)])).hash
    ELSE <<>>

\* the step is a snapshot that succeeded
Snapshot == cmd'.name = "commit" /\ cmd'.status = "committed" /\ cmd'.commits = cmd.commits + 1

\* C17: the first snapshot on a branch writes a commit without a parent,
\* every later one a commit whose one parent is the hash the current
\* pointer held before; following the parent links from the current pointer
\* visits the commits made so far, the latest first, each once.
C17_ParentIsPreviousPointer ==
    /\ [][ Snapshot =>
             /\ ParentsOf(fs', cmd'.commit) =
                    (IF Pointer(refs) = <<>> THEN <<>> ELSE <<Pointer(refs)>>)
             /\ Pointer(refs') = cmd'.commit
             /\ History(fs', Pointer(refs'), MaxSnapshots + 1)
                    = <<cmd'.commit>> \o History(fs, Pointer(refs), MaxSnapshots + 1) ]_vars
    /\ [](\E h \in {History(fs, Pointer(refs), MaxSnapshots + 1)} :
              /\ Len(h) = cmd.commits
              /\ \A i, j \in 1..Len(h) : h[i] = h[j] => i = j)

\* a second snapshot was made: its parent is the first
C17_Witness ==
    /\ Committed
    /\ cmd.commits = 2
    /\ Len(ParentsOf(fs, cmd.commit)) = 1
    /\ ParentsOf(fs, ParentsOf(fs, cmd.commit)[1]) = <<>>

\* C18: a successful snapshot with HEAD symbolic writes the forty hex digits
\* of the new commit and a newline to the branch file HEAD names and leaves
\* HEAD as it was; with HEAD detached it writes them to HEAD and writes no
\* branch file.
C18_SnapshotUpdatesTheRightRef ==
    [][ Snapshot =>
          /\ Len(Hex(cmd'.commit)) = 2 * HashSize
          /\ IF HeadIsSymbolic(refs)
             THEN /\ refs'.HEAD = refs.HEAD
                  /\ DOMAIN refs'.files = DOMAIN refs.files \cup {HeadRefName(refs)}
                  /\ refs'.files[HeadRefName(refs)] = Hex(cmd'.commit) \o <<B(10)>>
                  /\ \A p \in DOMAIN refs.files \ {HeadRefName(refs)} :
                         refs'.files[p] = refs.files[p]
             ELSE /\ refs'.HEAD = Hex(cmd'.commit) \o <<B(10)>>
                  /\ refs'.files = refs.files ]_vars

\* a snapshot was made with HEAD detached
C18_Witness ==
    /\ Committed
    /\ cmd.commits = 2
    /\ ~HeadIsSymbolic(refs)
    /\ refs.HEAD = Hex(cmd.commit) \o <<B(10)>>

(***************************************************************************)
(* Properties of the history walker: the stop signal and broken histories  *)
(***************************************************************************)
\* C19: when the callback returns ErrStopWalk, WalkHistory returns nil and
\* calls the callback on no further commit.
C19_StopIsSuccess ==
    /\ [](walk.last = "ErrStopWalk" => walk.ret = "nil")
    /\ [][walk.last = "ErrStopWalk" => walk'.calls = walk.calls]_vars

\* the hash names no object of the store, or one that is not a commit
Broken(hash) == ~commits[hash].exists \/ commits[hash].Type # CommitObject

\* C20: once WalkHistory has taken from the queue a hash whose object is
\* absent or is not a commit, it has returned an error, it has not called
\* the callback on that hash, and it calls the callback no more.
C20_BrokenHistoryIsAnError ==
    /\ [](\A h \in walk.visited :
              Broken(h) =>
                  /\ walk.ret \in {"failed to get object", "failed to parse commit"}
                  /\ \A i \in 1..Len(walk.calls) : walk.calls[i] # h)
    /\ [][(\E h \in walk.visited : Broken(h)) => walk'.calls = walk.calls]_vars

\* the walk met an object that is not a commit after it had called the
\* callback on a commit
C20_Witness ==
    /\ walk.ret = "failed to parse commit"
    /\ Len(walk.calls) > 0
    /\ \E h \in walk.visited : Broken(h)

(***************************************************************************)
(* Properties of WriteObject: the unset hash, two writers of one content   *)
(* and the temporary file of a failed call                                 *)
(***************************************************************************)
\* C22: a WriteObject call that was handed an object whose hash is not yet
\* computed, and in which no system call failed, returns success and leaves
\* at objects/<2 hex>/<38 hex> of the digest of "<kind> <len>\0<payload>"
\* the compressed header and payload.
C22_UnsetHashIsComputed ==
    \A w \in Writers : \A i \in 1..Len(wlog[w]) :
        (wlog[w][i].obj.Hash = <<>> /\ faults = 0)
        => /\ Succeeded(wlog[w][i])
           /\ ObjectPath(Hex(ObjectHash(wlog[w][i].obj))) \in DOMAIN fs
           /\ fs[ObjectPath(Hex(ObjectHash(wlog[w][i].obj)))]
                  = Compress(Content(wlog[w][i].obj))

\* the temporary file of call n of writer w
TempOf(obj, w, n) == TempPath(SubSeq(Hex(obj.Hash), 1, 2), w, n)

\* C23: when the two writers have each finished a WriteObject call for the
\* same hashed object and no system call has failed, both calls returned
\* success, the file at the final path holds the compressed header and
\* payload, and neither call's temporary file is left.
C23_TwoWritersOneContent ==
    \A i \in 1..Len(wlog[1]) : \A j \in 1..Len(wlog[2]) :
        ( /\ wlog[1][i].obj = wlog[2][j].obj
          /\ Len(wlog[1][i].obj.Hash) = HashSize
          /\ faults = 0 )
        => /\ Succeeded(wlog[1][i])
           /\ Succeeded(wlog[2][j])
           /\ ObjectPath(Hex(wlog[1][i].obj.Hash)) \in DOMAIN fs
           /\ fs[ObjectPath(Hex(wlog[1][i].obj.Hash))] = Compress(Content(wlog[1][i].obj))
           /\ TempOf(wlog[1][i].obj, 1, i) \notin DOMAIN fs
           /\ TempOf(wlog[2][j].obj, 2, j) \notin DOMAIN fs

\* the two calls overlapped: each found no file at the final path, filled
\* its own temporary file and renamed it
C23_Witness ==
    /\ Len(wlog[1]) = 1
    /\ Len(wlog[2]) = 1
    /\ wlog[1][1].obj = wlog[2][1].obj
    /\ wlog[1][1].res = "written"
    /\ wlog[2][1].res = "written"
    /\ faults = 0
    /\ DOMAIN fs = {ObjectPath(Hex(wlog[1][1].obj.Hash))}

\* the results of a WriteObject call that failed after ioutil.TempFile
FailedAfterCreate ==
    {"write header failed", "write data failed", "close zlib failed",
     "close file failed", "rename failed"}

\* C26: a WriteObject call that failed after it had created its temporary
\* file has left no temporary file, and no file at the final path unless
\* another call wrote it.
C26_FailedWriteLeavesNothing ==
    \A w \in Writers : \A i \in 1..Len(wlog[w]) :
        wlog[w][i].res \in FailedAfterCreate
        => /\ TempOf(wlog[w][i].obj, w, i) \notin DOMAIN fs
           /\ (\A v \in Writers : \A j \in 1..Len(wlog[v]) :
                   wlog[v][j].obj = wlog[w][i].obj => ~Succeeded(wlog[v][j]))
              => ObjectPath(Hex(wlog[w][i].obj.Hash)) \notin DOMAIN fs

(***************************************************************************)
(* Properties of the snapshot command: failed writes, references between   *)
(* objects, names within a tree                                            *)
(***************************************************************************)
\* Snapshots and staging in which a WriteObject call may fail at any of its
\* steps, for a blob, for a tree at any depth or for the commit.  The clock
\* stands still and the path staged anew is the one in a directory.
NextFail ==
    \/ \E message \in Messages, fault \in Faults(MaxEntries + 2) :
           CommitStep(message, 1, fault)
    \/ \E fault \in Faults(1) : AddStep(PathDF, FileOf(PathDF), fault)

SpecFail == InitCommit /\ [][NextFail]_vars

\* the objects stored at the final paths of an object directory
ObjectsIn(files) ==
    {r.obj : r \in {o \in {ReadObject(Decompress(files[p]).data) :
                              p \in {q \in DOMAIN files : ~IsTempPath(q)}} :
                       o.err = "none"}}

\* C25: a snapshot in which a WriteObject call fails, for a tree at any
\* depth or for the commit, ends in failure: it writes no commit object, it
\* leaves the refs as they were and it counts as no snapshot.
C25_FailedWriteFailsSnapshot ==
    [][ (cmd'.name = "commit" /\ faults' = faults + 1) =>
            /\ cmd'.status \in {"failed to build tree objects",
                                "failed to write commit object"}
            /\ commitExit(cmd'.status) # 0
            /\ cmd'.commit = <<>>
            /\ cmd'.commits = cmd.commits
            /\ refs' = refs
            /\ \A o \in ObjectsIn(fs') \ ObjectsIn(fs) : o.Type # CommitObject ]_vars

\* the write of the innermost of three nested trees failed: no enclosing
\* tree and no commit was written
C25_Witness ==
    /\ cmd.name = "commit"
    /\ cmd.status = "failed to build tree objects"
    /\ faults = 1
    /\ \E i \in 1..Len(cmd.entries) : cmd.entries[i].PathName = <<100, 47, 115, 47, 102>>
    /\ \A o \in ObjectsIn(fs) : o.Type = BlobObject
    /\ refs = NoRefs

\* the hash after "tree " in the first line of a commit payload
TreeOf(data) ==
    FromString(SubSeq(HeaderLines(data)[1], Len(<<116, 114, 101, 101, 32>>) + 1,
                      Len(HeaderLines(data)[1]))).hash

\* the hashes an object refers to: a commit to its tree and its parents, a
\* tree to the objects of its entries
RefsOf(o) ==
    IF o.Type = CommitObject
    THEN {TreeOf(o.Data)} \cup {ParseCommit(o.Data).Parents[i] :
                                   i \in 1..Len(ParseCommit(o.Data).Parents)}
    ELSE IF o.Type = TreeObject
    THEN {ParseTree(o.Data)[i].Hash : i \in 1..Len(ParseTree(o.Data))}
    ELSE {}

Stored(files, hash) == GetObject(files, hash).err = "none"

C30_TreeNamesDistinct ==
    \A es \in TreesIn(fs) :
        \A i, j \in 1..Len(es) : es[i].Name = es[j].Name => i = j

(***************************************************************************)
(* The index file rewritten by another tool: the entry data is cut to its  *)
(* first bytes, the header declares any number of entries, and the         *)
(* checksum is the right one for the new content.                          *)
(***************************************************************************)
ForgeStep(count, cut) ==
    /\ ipc = "idle"
    /\ indexFile.exists
    /\ iop.name = "write"
    /\ iop.err = "none"
    /\ corrupted = -1
    /\ cut \in indexHeaderSize..(Len(indexFile.data) - HashSize)
    /\ \E content \in {Slice(indexFile.data, 0, 8) \o PutUint32(count)
                           \o Slice(indexFile.data, indexHeaderSize, cut)} :
           indexFile' = [indexFile EXCEPT !.data = content \o Sha1Sum(content)]
    /\ corrupted' = cut
    /\ iop' = [NoOp EXCEPT !.name = "forge"]
    /\ UNCHANGED <<idx, ipc, written>>

NextForge ==
    \/ ReadIndexStep /\ UNCHANGED <<svars, hvars, cvars>>
    \/ \E e \in EntriesOver(SmallPaths) : AddEntryStep(e) /\ UNCHANGED <<svars, hvars, cvars>>
    \/ WriteIndexStep /\ UNCHANGED <<svars, hvars, cvars>>
    \/ \E count \in 0..(MaxEntries + 1), cut \in 0..(Len(indexFile.data) - 1) :
           ForgeStep(count, cut) /\ UNCHANGED <<svars, hvars, cvars>>

SpecForge == InitIndex /\ [][NextForge]_vars

\* where n entries starting at offset end, each taking its 62 fixed bytes
\* and the path length in its flags rounded up to a multiple of 8; -1 if
\* one of them does not fit into the data
RECURSIVE EntriesEnd(_, _, _)
EntriesEnd(data, offset, n) ==
    IF n = 0 THEN offset
    ELSE IF offset + 62 > Len(data) THEN -1
    ELSE LET size == 8 * ((62 + (Uint16(data, offset + 60) % 4096) + 7) \div 8)
         IN  IF offset + size > Len(data) THEN -1
             ELSE EntriesEnd(data, offset + size, n - 1)

\* the errors of ReadIndex for a file whose structure is wrong
CorruptErrors ==
    {"corrupt", "insufficient data for entry", "insufficient data for fixed fields",
     "insufficient data for path name", "insufficient data for padding"}

\* C27: ReadIndex of a file with a header, a good signature and version
\* and the right checksum succeeds exactly if the declared number of
\* entries ends where the checksum starts; otherwise it fails with one of
\* the corruption errors and returns no index.
C27_CursorMustReachChecksum ==
    (iop.name = "read" /\ indexFile.exists
        /\ Len(indexFile.data) >= indexHeaderSize + HashSize /\ iop.err # "checksum mismatch")
    => \E content \in {Slice(indexFile.data, 0, Len(indexFile.data) - HashSize)} :
           IF EntriesEnd(content, indexHeaderSize, Uint32(content, 8)) = Len(content)
           THEN iop.err = "none" /\ Len(idx.Entries) = Uint32(content, 8)
           ELSE iop.err \in CorruptErrors /\ idx.Entries = <<>> /\ ipc = "idle"

\* a file that holds two whole entries and declares one was read: the
\* cursor stopped before the checksum
C27_Witness ==
    /\ iop.name = "read"
    /\ corrupted = indexHeaderSize + 128
    /\ Uint32(indexFile.data, 8) = 1
    /\ iop.err = "corrupt"

(***************************************************************************)
(* Two staging runs on one repository.  The first is followed call by      *)
(* call: it reads the index, adds entries to its Index in memory and       *)
(* writes the index.  The second runs from start to end at some moment     *)
(* between a read and the write of the first, which reads no more after.   *)
(***************************************************************************)
NextRace ==
    \/ cmd.name = "init" /\ ReadIndexStep /\ UNCHANGED <<svars, hvars, cvars>>
    \/ \E e \in EntriesOver(SmallPaths) : AddEntryStep(e) /\ UNCHANGED <<svars, hvars, cvars>>
    \/ WriteIndexStep /\ UNCHANGED <<svars, hvars, cvars>>
    \/ \E path \in {PathB, PathDF} :
           ipc = "open" /\ cmd.name = "init" /\ AddStep(path, FileOf(path), NoFault)

SpecRace == InitIndex /\ [][NextRace]_vars

PathsOf(entries) == {entries[i].PathName : i \in 1..Len(entries)}

\* C28: when a staging run writes the index after another run has staged
\* and persisted a path in the meantime, the write succeeds like the other
\* run did, and the file it leaves is the one made from the writer's Index
\* alone: a path only the other run staged is in it no more.
C28_LaterWriterWins ==
    [][ (iop'.name = "write" /\ cmd.name = "add" /\ cmd.status = "added") =>
            /\ iop'.err = "none"
            /\ indexFile'.data = WriteIndex(idx).data
            /\ \A p \in PathsOf(cmd.entries) \ PathsOf(idx.Entries) :
                   \A i \in 1..Len(written'.tuples) : written'.tuples[i][1] # p ]_vars

\* both runs read the missing index, the second staged d/f and wrote the
\* index, then the first wrote its one entry a: both succeeded and d/f is
\* lost
C28_Witness ==
    /\ iop.name = "write"
    /\ iop.err = "none"
    /\ cmd.name = "add"
    /\ cmd.status = "added"
    /\ PathsOf(cmd.entries) = {PathDF}
    /\ Len(written.tuples) = 1
    /\ written.tuples[1][1] = PathA
    /\ indexFile.data = WriteIndex([Version |-> indexVersion,
                                    Entries |-> <<PackedEntry(PathA, 1)>>]).data

(***************************************************************************)
(* The staging command with several paths.  An argument is the path        *)
(* filepath.Rel gives for it and what os.Lstat and ioutil.ReadFile find    *)
(* there; the command is given some of the arguments below, in this order. *)
(***************************************************************************)
OutsideNever(relPath) == FALSE

\* strings.HasPrefix(relPath, "..")
Outside(relPath) == HasPrefix(relPath, <<46, 46>>)

ArgItems ==
    << [path |-> PathB, kind |-> "missing"],
       [path |-> <<46, 46, 47, 120>>, kind |-> "file"],
       [path |-> PathA, kind |-> "file"],
       [path |-> <<100>>, kind |-> "dir"],
       [path |-> PathDF, kind |-> "file"],
       [path |-> <<108>>, kind |-> "symlink"],
       [path |-> <<117>>, kind |-> "unreadable"] >>

\* the argument lists of at most n arguments
ArgLists(n) ==
    {[k \in 1..Cardinality(S) |->
         ArgItems[CHOOSE x \in S : Cardinality({y \in S : y < x}) = k - 1]] :
        S \in {T \in SUBSET (1..Len(ArgItems)) : Cardinality(T) \in 1..n}}

\* addCmd.Run for the arguments args: the new object directory, index file
\* and outcome, and the positions of the arguments that were skipped
addCmdArgs(file, files, args, fault) ==
    LET RECURSIVE Loop(_, _, _, _)
        Staged(i, entries, skipped, w) ==
            IF w.err # "none" THEN Loop(i + 1, entries, w.st, skipped \cup {i})
            ELSE Loop(i + 1, AddEntry(entries, StagedEntry(args[i].path, FileOf(args[i].path))),
                      w.st, skipped)
        Loop(i, entries, st, skipped) ==
            IF i > Len(args) THEN [entries |-> entries, st |-> st, skipped |-> skipped]
            ELSE IF Outside(args[i].path) THEN Loop(i + 1, entries, st, skipped \cup {i})
            ELSE IF args[i].kind = "missing" THEN Loop(i + 1, entries, st, skipped \cup {i})
            ELSE IF args[i].kind = "dir" THEN Loop(i + 1, entries, st, skipped \cup {i})
            ELSE IF args[i].kind = "symlink" THEN Loop(i + 1, entries, st, skipped \cup {i})
            ELSE IF args[i].kind = "unreadable" THEN Loop(i + 1, entries, st, skipped \cup {i})
            ELSE Staged(i, entries, skipped,
                        WriteObject(st, NewBlob(FileData(FileOf(args[i].path))), fault))
        Written(l, out) ==
            IF out.err # "none"
            THEN [files |-> l.st.files, file |-> file, entries |-> l.entries,
                  status |-> "failed to write updated index", skipped |-> l.skipped]
            ELSE [files |-> l.st.files, file |-> [exists |-> TRUE, data |-> out.data],
                  entries |-> l.entries, status |-> "done", skipped |-> l.skipped]
        Looped(read, l) ==
            Written(l, WriteIndex([Version |-> read.Version, Entries |-> l.entries]))
        Read(read) ==
            IF read.err # "none"
            THEN [files |-> files, file |-> file, entries |-> <<>>,
                  status |-> "failed to read index", skipped |-> {}]
            ELSE Looped(read, Loop(1, read.Entries, [files |-> files, n |-> 0], {}))
    IN  Read(ReadIndex(file))

\* the staging command runs with several paths, once, on a repository whose
\* index earlier runs have filled; a fault is one that changes the run
AddArgsStep(args, fault) ==
    /\ cmd.name = "init"
    /\ fault # NoFault => faults < MaxFaults
    /\ \E r \in {addCmdArgs(indexFile, fs, args, fault)} :
           /\ fault # NoFault => r # addCmdArgs(indexFile, fs, args, NoFault)
           /\ fs' = r.files
           /\ indexFile' = r.file
           /\ cmd' = [name |-> "add", status |-> r.status, entries |-> r.entries,
                      root |-> <<>>, commit |-> <<>>, commits |-> cmd.commits,
                      args |-> args, skipped |-> r.skipped]
    /\ faults' = faults + (IF fault # NoFault THEN 1 ELSE 0)
    /\ UNCHANGED <<idx, ipc, iop, written, corrupted, writers, wlog, got, refs, hvars>>

NextAdd == \E args \in ArgLists(MaxArgs), fault \in Faults(MaxArgs) : AddArgsStep(args, fault)

SpecAdd == InitCommit /\ [][NextAdd]_vars

\* the arguments that name a regular, readable file inside the repository
Stageable(args) ==
    {i \in 1..Len(args) : args[i].kind = "file" /\ ~HasPrefix(args[i].path, <<46, 46>>)}

\* C21: a staging run with several paths whose index could be read goes
\* through all of them; the index file it leaves, read back, has an entry
\* for every path that did not fail, and none for a path that failed and
\* was not in the index before.
C21_FailedPathsAreSkipped ==
    [][ (cmd'.name = "add" /\ ReadIndex(indexFile).err = "none") =>
            /\ cmd'.status = "done"
            /\ (1..Len(cmd'.args)) \ Stageable(cmd'.args) \subseteq cmd'.skipped
            /\ ReadIndex(indexFile').err = "none"
            /\ \A i \in 1..Len(cmd'.args) :
                  IF i \in cmd'.skipped
                  THEN cmd'.args[i].path \in PathsOf(ReadIndex(indexFile').Entries)
                           => cmd'.args[i].path \in PathsOf(ReadIndex(indexFile).Entries)
                  ELSE cmd'.args[i].path \in PathsOf(ReadIndex(indexFile').Entries) ]_vars

\* C24: a staging run skips a path outside the repository and goes on:
\* the paths after it that can be staged are in the Index it persists, and
\* no entry of that Index, nor of the index file read back, has a path
\* beginning with "..".
C24_NoEntryOutsideRepository ==
    /\ \A p \in PathsOf(cmd.entries) \cup PathsOf(ReadIndex(indexFile).Entries) :
           ~HasPrefix(p, <<46, 46>>)
    /\ (cmd.name = "add" /\ cmd.status # "failed to read index") =>
           /\ cmd.status = "done"
           /\ \A i \in 1..Len(cmd.args) :
                  /\ HasPrefix(cmd.args[i].path, <<46, 46>>) => i \in cmd.skipped
                  /\ i \notin cmd.skipped => cmd.args[i].path \in PathsOf(cmd.entries)

\* ../x was given before a, and a was staged
C24_Witness ==
    /\ cmd.name = "add"
    /\ cmd.status = "done"
    /\ Len(cmd.args) = 2
    /\ cmd.args[1].path = <<46, 46, 47, 120>>
    /\ cmd.args[1].kind = "file"
    /\ cmd.skipped = {1}
    /\ PathA \in PathsOf(cmd.entries)
    /\ faults = 0

====
